---- MODULE Spec2Model ----
(***************************************************************************)
(* Idempotent notification dispatch of bot_limalimao: the birthday,        *)
(* holiday, collections, orders and invoices workflows, their send-state   *)
(* (JSON files, log table, status columns) and the deliveries they make    *)
(* through the Evolution gateway.                                          *)
(*                                                                         *)
(* The five workflows share no state (two JSON files, one log table, two   *)
(* status columns), so a behaviour drives one of them, chosen in Init by   *)
(* `servico`; the faults of the environment (gateway errors, failed        *)
(* writes, a killed process) are nondeterministic choices of the actions.  *)
(***************************************************************************)
EXTENDS Integers, Sequences, FiniteSets, TLC

VARIABLES
    servico,      \* the workflow this behaviour drives
    ti_phone,     \* TI_NOTIFY_PHONE is set in the environment
    now,          \* wall clock: index into Timeline
    clientes,     \* table clientes: cli_codigo -> cli_telefone (raw)
    file_aniv,    \* state/aniversarios_enviados.json on disk
    file_fest,    \* state/festividades_enviados.json on disk
    log,          \* table log_envio_whatsapp
    status_ped,   \* column STATUS of CV_PEDCAB_NOTIFICA
    status_nota,  \* column STATUS of CV_DANFE_VENDA_NOTIFICA
    pc,           \* position of the running workflow call
    hoje,         \* the date the running call sampled
    tipo,         \* category of the running call
    rows,         \* candidate rows of the running call
    idx,          \* the row the loop is at
    mem,          \* enviados_por_cliente of the running call
    stats,        \* counters of the running call
    tried,        \* history of the call: entities a customer send was called for
    sent,         \* history of the call: entities a customer send succeeded for
    runs,         \* workflow calls started so far
    delivered,    \* history: successful customer deliveries per DispatchKey
    ti_alerts,    \* history: per entity, the calls with a delivered alert to the TI channel
    hist          \* history: the faults that happened, and to which DispatchKeys

config == <<servico, ti_phone>>
world == <<now, clientes>>
files == <<file_aniv, file_fest>>
db == <<log, status_ped, status_nota>>
frame == <<hoje, tipo, rows, mem>>
wire == <<tried, sent, delivered>>

vars == <<config, db, world, files, pc, frame, idx, stats, wire, runs, ti_alerts, hist>>

-----------------------------------------------------------------------------
(* Bounds of the model *)

MaxRuns == 2      \* workflow calls per behaviour
MaxFaults == 1    \* faults of the environment per behaviour (failed deliveries, failed writes, kills)

-----------------------------------------------------------------------------
(* Characters, strings as sequences of characters *)

Digits == <<"0", "1", "2", "3", "4", "5", "6", "7", "8", "9">>

IsDigit(ch) == \E i \in 1..10 : Digits[i] = ch

DigitChar(n) == Digits[n + 1]

Pad2(n) == <<DigitChar((n \div 10) % 10), DigitChar(n % 10)>>

Pad4(n) == <<DigitChar((n \div 1000) % 10), DigitChar((n \div 100) % 10)>> \o Pad2(n % 100)

\* date.isoformat(): "YYYY-MM-DD"
isoformat(d) == Pad4(d.y) \o <<"-">> \o Pad2(d.m) \o <<"-">> \o Pad2(d.d)

-----------------------------------------------------------------------------
(* normalizar_celular_br *)

None == <<"None">>

DDD_DEFAULT == <<"4", "6">>

RECURSIVE lstrip_zeros(_)
\* while digits.startswith("0"): digits = digits[1:]
lstrip_zeros(s) == IF s # <<>> /\ Head(s) = "0" THEN lstrip_zeros(Tail(s)) ELSE s

\* variant of Last9: a long local number is kept whole
Last9_tudo(s) == s

\* local[-9:]
Last9(s) == SubSeq(s, Len(s) - 8, Len(s))

\* variant of sem_prefixo_55: a leading "55" is kept
sem_prefixo_55_fica(digits) == digits

\* lines 357-358: if digits.startswith("55"): digits = digits[2:]
sem_prefixo_55(digits) ==
    IF Len(digits) >= 2 /\ digits[1] = "5" /\ digits[2] = "5"
    THEN SubSeq(digits, 3, Len(digits))
    ELSE digits

normalizar_celular_br(raw) ==
    IF raw = <<>> THEN None
    ELSE LET digits0 == SelectSeq(raw, IsDigit) IN
         IF Len(digits0) < 8 THEN None
         ELSE LET digits1 == lstrip_zeros(digits0)
                  digits == sem_prefixo_55(digits1)
                  ddd == IF Len(digits) >= 10 THEN SubSeq(digits, 1, 2) ELSE DDD_DEFAULT
                  local0 == IF Len(digits) >= 10 THEN SubSeq(digits, 3, Len(digits)) ELSE digits
              IN IF Len(local0) < 8 THEN None
                 ELSE LET local == IF Len(local0) = 8 THEN <<"9">> \o local0
                                   ELSE IF Len(local0) > 9 THEN Last9(local0)
                                   ELSE local0
                      IN IF Len(ddd) # 2 THEN None
                         ELSE <<"5", "5">> \o ddd \o local

-----------------------------------------------------------------------------
(* The world the workflows run in *)

Clients == {"c1", "c2"}

\* values of cli_telefone: a number that normalizes and one that is too short
FONE_OK == <<"9", "9", "1", "2", "2", "8", "2", "6">>
FONE_CURTO == <<"1", "2", "3">>
Telefones == {FONE_OK, FONE_CURTO}

\* the instants the wall clock passes through
Timeline ==
    << [y |-> 2025, m |-> 12, d |-> 24, hh |-> 10, mm |-> 0, ss |-> 0],
       [y |-> 2025, m |-> 12, d |-> 24, hh |-> 22, mm |-> 0, ss |-> 0],
       [y |-> 2025, m |-> 12, d |-> 25, hh |-> 0, mm |-> 5, ss |-> 0],
       [y |-> 2025, m |-> 12, d |-> 31, hh |-> 22, mm |-> 30, ss |-> 0] >>

\* datetime.now()
agora == Timeline[now]

\* date.today() / agora.date()
date_of(t) == [y |-> t.y, m |-> t.m, d |-> t.d]

NoDate == [y |-> 0, m |-> 0, d |-> 0]

IsLeap(y) == (y % 4 = 0 /\ y % 100 # 0) \/ y % 400 = 0

DaysBeforeMonth == <<0, 31, 59, 90, 120, 151, 181, 212, 243, 273, 304, 334>>

\* day number of a date, for BETWEEN and DATEDIFF
DayNumber(d) ==
    365 * (d.y - 1) + ((d.y - 1) \div 4) - ((d.y - 1) \div 100) + ((d.y - 1) \div 400)
    + DaysBeforeMonth[d.m] + (IF d.m > 2 /\ IsLeap(d.y) THEN 1 ELSE 0) + d.d

\* the pending rows of CV_PEDCAB_NOTIFICA (in the order of DATA_CRIACAO) and of
\* CV_DANFE_VENDA_NOTIFICA, with the client each belongs to
Pedidos == {"p1", "p2"}
Notas == {"n1", "n2"}
ClienteDe == [x \in Pedidos \cup Notas |-> IF x \in {"p1", "n1"} THEN "c1" ELSE "c2"]

STATUS_PENDENTE == "P"
STATUS_ENVIADO == "E"
STATUS_FALHA == "F"

-----------------------------------------------------------------------------
(* Histories of what went over the wire *)

EmptyDict == [k \in {} |-> <<>>]

Count(h, key) == IF key \in DOMAIN h THEN h[key] ELSE 0

Record(h, key) ==
    [k \in DOMAIN h \cup {key} |-> IF k = key THEN Count(h, key) + 1 ELSE h[k]]

Runs(h, key) == IF key \in DOMAIN h THEN h[key] ELSE {}

\* the call number r is added to the calls of a key
Stamp(h, key, r) ==
    [k \in DOMAIN h \cup {key} |-> IF k = key THEN Runs(h, key) \cup {r} ELSE h[k]]

RECURSIVE StampAll(_, _, _)
StampAll(h, keys, r) ==
    IF keys = <<>> THEN h ELSE StampAll(Stamp(h, Head(keys), r), Tail(keys), r)

\* DispatchKey (entity, category, period)
DispatchKey(entity, categoria, dia) == <<entity, categoria, isoformat(dia)>>

NoFaults ==
    [faults |-> 0,           \* faults so far
     send_fault |-> FALSE,   \* a customer delivery failed
     save_fault |-> FALSE,   \* a write of the send-state failed
     killed |-> FALSE,       \* the process was killed during a call
     corrupto |-> FALSE,     \* a state file was damaged from outside the process
     gravados |-> {},        \* <<client, category, call>>: markers a completed write put on
                             \* disk, with the number of the call that first wrote them
     gap |-> {},             \* keys: killed between the successful send and the end of its write
     falhou |-> {},          \* keys a customer delivery failed for
     invalido |-> {},        \* keys skipped for an invalid phone
     erro |-> [tipo |-> "-", status_code |-> 0, ti_ok |-> FALSE]]
                             \* the exception of the last failed invoice delivery, and
                             \* whether the send of its TI alert worked

\* the markers of a completed write are added to those written so far
Gravar(g, markers, r) ==
    g \cup {<<k[1], k[2], r>> : k \in {m \in markers : \A e \in g : <<e[1], e[2]>> # m}}

\* the environment may still fail
MayFail == hist.faults < MaxFaults

\* the outcomes of an operation of the environment: it works, or it may fail
Outcomes == IF MayFail THEN BOOLEAN ELSE {TRUE}

-----------------------------------------------------------------------------
(* state_manager: the JSON files *)

JsonString(s) == [t |-> "string", s |-> s]

FileMissing == [kind |-> "missing", data |-> EmptyDict]
\* truncated by open(..., "w") or partly written: not valid JSON
FileInvalid == [kind |-> "invalid", data |-> EmptyDict]

\* open(..., "r") raises (permissions, a directory in its place)
FileUnreadable == [kind |-> "unreadable", data |-> EmptyDict]
\* valid JSON that is not an object
FileArray == [kind |-> "array", data |-> EmptyDict]

\* json.dump of {"<cliente>": "YYYY-MM-DD"}
dump_aniversarios(data) ==
    [kind |-> "object", data |-> [k \in DOMAIN data |-> JsonString(data[k])]]

\* variant of py_str: every value is read as None
py_str_vazio(j) == <<>>

\* str(v) if v is not None else ""
py_str(j) == IF j.t = "string" THEN j.s ELSE <<>>

load_aniversarios_enviados(f) ==
    IF f.kind = "object"
    THEN [k \in DOMAIN f.data |-> py_str(f.data[k])]
    ELSE EmptyDict

JsonObject(m) == [t |-> "object", m |-> m]

\* json.dump of {"<cliente>": {"natal": "YYYY-MM-DD", "ano_novo": "YYYY-MM-DD"}}
dump_festividades(data) ==
    [kind |-> "object",
     data |-> [k \in DOMAIN data |->
                  JsonObject([subk \in DOMAIN data[k] |-> JsonString(data[k][subk])])]]

\* entries whose value is not an object are dropped
load_festividades_enviados(f) ==
    IF f.kind = "object"
    THEN [k \in {x \in DOMAIN f.data : f.data[x].t = "object"} |->
             [subk \in DOMAIN f.data[k].m |-> py_str(f.data[k].m[subk])]]
    ELSE EmptyDict

-----------------------------------------------------------------------------
(* Initial state: nothing sent, no call running *)

ZeroStats == [total |-> 0, enviados |-> 0, ja_enviados |-> 0, sem_celular |-> 0, falhas |-> 0]

Servicos == {"aniv", "fest", "cob", "ped", "notas", "gates", "main", "fone", "evo"}

Init ==
    /\ servico \in Servicos
    /\ ti_phone \in BOOLEAN
    /\ now = 1
    /\ clientes \in [Clients -> Telefones]
    /\ file_aniv = FileMissing
    /\ file_fest = FileMissing
    /\ log = {}
    /\ status_ped = [p \in Pedidos |-> STATUS_PENDENTE]
    /\ status_nota = [n \in Notas |-> STATUS_PENDENTE]
    /\ pc = "idle"
    /\ hoje = NoDate
    /\ tipo = "-"
    /\ rows = <<>>
    /\ idx = 1
    /\ mem = EmptyDict
    /\ stats = ZeroStats
    /\ tried = {}
    /\ sent = {}
    /\ runs = 0
    /\ delivered = EmptyDict
    /\ ti_alerts = EmptyDict
    /\ hist = NoFaults

-----------------------------------------------------------------------------
(* The environment *)

\* time passes; the clock is read only when a call starts, so the passing of
\* time during a call is taken at its end
Tick ==
    /\ pc = "idle"
    /\ now < Len(Timeline)
    /\ now' = now + 1
    /\ UNCHANGED <<config, db, clientes, files, pc, frame, idx, stats, wire, runs, ti_alerts, hist>>

\* somebody edits a client's phone in the ERP; a call reads the phones only in
\* its candidate query, so an edit during a call is taken at its end
AtualizaTelefone ==
    /\ pc = "idle"
    /\ \E c \in Clients, fone \in Telefones :
          /\ fone # clientes[c]
          /\ clientes' = [clientes EXCEPT ![c] = fone]
    /\ UNCHANGED <<config, db, now, files, pc, frame, idx, stats, wire, runs, ti_alerts, hist>>

\* the state file of the workflow is damaged or removed between two calls
Corrompe ==
    /\ servico \in {"aniv", "fest"}
    /\ pc = "idle"
    /\ MayFail
    /\ \E f \in {FileMissing, FileInvalid, FileUnreadable, FileArray} :
          IF servico = "aniv"
          THEN file_aniv # f /\ file_aniv' = f /\ UNCHANGED file_fest
          ELSE file_fest # f /\ file_fest' = f /\ UNCHANGED file_aniv
    /\ hist' = [hist EXCEPT !.faults = @ + 1, !.corrupto = TRUE]
    /\ UNCHANGED <<config, db, world, pc, frame, idx, stats, wire, runs, ti_alerts>>

\* the frame of a call that is over
Forget ==
    /\ pc' = "idle"
    /\ hoje' = NoDate
    /\ tipo' = "-"
    /\ rows' = <<>>
    /\ idx' = 1
    /\ mem' = EmptyDict
    /\ stats' = ZeroStats
    /\ tried' = {}
    /\ sent' = {}

\* the notifier process is killed during a call and restarted; the files stay as
\* they are, and a kill between a successful send_text and the end of the write of
\* its marker is remembered
Kill ==
    /\ pc \notin {"idle", "done", "raised"}
    /\ MayFail
    /\ Forget
    /\ hist' = [hist EXCEPT !.faults = @ + 1,
                            !.killed = TRUE,
                            !.gap = IF pc \in {"save", "dump"}
                                    THEN @ \cup {DispatchKey(rows[idx].CLIENTE, tipo, hoje)}
                                    ELSE @]
    /\ UNCHANGED <<config, db, world, files, runs, delivered, ti_alerts>>

\* run_notifier.main prints the summary and goes on to the next cycle
Main_proximo ==
    /\ pc = "done"
    /\ Forget
    /\ UNCHANGED <<config, db, world, files, runs, delivered, ti_alerts, hist>>

-----------------------------------------------------------------------------
(* notifier_service.notificar_ti_pedido_sem_celular: no deduplication, the send *)
(* error is swallowed; `ok` is the outcome of its send_text                    *)

notificar_ti_pedido_sem_celular(alerts, contexto, identificador, ok) ==
    IF ti_phone /\ ok
    THEN Stamp(alerts, <<contexto, identificador>>, runs)
    ELSE alerts

-----------------------------------------------------------------------------
(* aniversario_service.processar_aniversariantes *)

\* the CLIENTE column of the rows BIRTHDAY_SQL returns, in the order it returns
\* them: the code expects an empty CLIENTE and does not expect it to be unique
AniversariantesIds == <<"c1", "", "c2", "c1">>

\* rows of BIRTHDAY_SQL with the phones the table holds now
buscar_aniversariantes ==
    [i \in 1..Len(AniversariantesIds) |->
        [CLIENTE |-> AniversariantesIds[i],
         CELULAR |-> IF AniversariantesIds[i] \in Clients
                     THEN clientes[AniversariantesIds[i]]
                     ELSE FONE_OK]]

\* the row the for loop is at
linha == rows[idx]

\* lines 74-87: sample the date, load the state file, fetch the candidates
\* variant of Aniv_inicio: the error of reading a damaged file leaves the call
Aniv_inicio_propaga ==
    /\ servico = "aniv"
    /\ pc = "idle"
    /\ runs < MaxRuns
    /\ runs' = runs + 1
    /\ hoje' = date_of(agora)
    /\ tipo' = "aniversario"
    /\ mem' = load_aniversarios_enviados(file_aniv)
    /\ rows' = buscar_aniversariantes
    /\ stats' = [ZeroStats EXCEPT !.total = Len(buscar_aniversariantes)]
    /\ idx' = 1
    /\ pc' = IF file_aniv.kind \in {"object", "missing"} THEN "loop" ELSE "raised"
    /\ UNCHANGED <<config, db, world, files, wire, ti_alerts, hist>>

Aniv_inicio ==
    /\ servico = "aniv"
    /\ pc = "idle"
    /\ runs < MaxRuns
    /\ runs' = runs + 1
    /\ hoje' = date_of(agora)
    /\ tipo' = "aniversario"
    /\ mem' = load_aniversarios_enviados(file_aniv)
    /\ rows' = buscar_aniversariantes
    /\ stats' = [ZeroStats EXCEPT !.total = Len(buscar_aniversariantes)]
    /\ idx' = 1
    /\ pc' = "loop"
    /\ UNCHANGED <<config, db, world, files, wire, ti_alerts, hist>>

\* lines 94-95: if not cliente_id: continue
Aniv_sem_id ==
    /\ servico = "aniv" /\ pc = "loop" /\ idx <= Len(rows)
    /\ linha.CLIENTE = ""
    /\ idx' = idx + 1
    /\ UNCHANGED <<config, db, world, files, pc, frame, stats, wire, runs, ti_alerts, hist>>

\* variant of aniv_ja_enviado: any stored date counts as sent
aniv_ja_enviado_sem_data(enviados_por_cliente, cliente_id, dia) ==
    cliente_id \in DOMAIN enviados_por_cliente

\* line 97: enviados_por_cliente.get(cliente_id) == hoje.isoformat()
aniv_ja_enviado(enviados_por_cliente, cliente_id, dia) ==
    /\ cliente_id \in DOMAIN enviados_por_cliente
    /\ enviados_por_cliente[cliente_id] = isoformat(dia)

\* variant of Aniv_ja_enviado: the skipped row is not counted
Aniv_ja_enviado_sem_conta ==
    /\ servico = "aniv" /\ pc = "loop" /\ idx <= Len(rows)
    /\ linha.CLIENTE # ""
    /\ aniv_ja_enviado(mem, linha.CLIENTE, hoje)
    /\ idx' = idx + 1
    /\ UNCHANGED <<config, db, world, files, pc, frame, stats, wire, runs, ti_alerts, hist>>

\* lines 97-99
Aniv_ja_enviado ==
    /\ servico = "aniv" /\ pc = "loop" /\ idx <= Len(rows)
    /\ linha.CLIENTE # ""
    /\ aniv_ja_enviado(mem, linha.CLIENTE, hoje)
    /\ stats' = [stats EXCEPT !.ja_enviados = @ + 1]
    /\ idx' = idx + 1
    /\ UNCHANGED <<config, db, world, files, pc, frame, wire, runs, ti_alerts, hist>>

\* variant of Aniv_sem_celular: the client without a phone is marked as sent
Aniv_sem_celular_marca ==
    /\ servico = "aniv" /\ pc = "loop" /\ idx <= Len(rows)
    /\ linha.CLIENTE # ""
    /\ ~aniv_ja_enviado(mem, linha.CLIENTE, hoje)
    /\ normalizar_celular_br(linha.CELULAR) = None
    /\ stats' = [stats EXCEPT !.sem_celular = @ + 1]
    /\ mem' = [k \in DOMAIN mem \cup {linha.CLIENTE} |->
                  IF k = linha.CLIENTE THEN isoformat(hoje) ELSE mem[k]]
    /\ \E ok \in Outcomes :
          /\ ti_alerts' = notificar_ti_pedido_sem_celular(ti_alerts, "Aniversariante",
                                                          linha.CLIENTE, ok)
          /\ hist' = [hist EXCEPT !.faults = IF ok THEN @ ELSE @ + 1,
                                  !.invalido = @ \cup {DispatchKey(linha.CLIENTE, tipo, hoje)}]
    /\ idx' = idx + 1
    /\ UNCHANGED <<config, db, world, files, pc, hoje, tipo, rows, wire, runs>>

\* variant of Aniv_sem_celular: the phone is checked before the marker
Aniv_sem_celular_primeiro ==
    /\ servico = "aniv" /\ pc = "loop" /\ idx <= Len(rows)
    /\ linha.CLIENTE # ""
    /\ normalizar_celular_br(linha.CELULAR) = None
    /\ stats' = [stats EXCEPT !.sem_celular = @ + 1]
    /\ \E ok \in Outcomes :
          /\ ti_alerts' = notificar_ti_pedido_sem_celular(ti_alerts, "Aniversariante",
                                                          linha.CLIENTE, ok)
          /\ hist' = [hist EXCEPT !.faults = IF ok THEN @ ELSE @ + 1,
                                  !.invalido = @ \cup {DispatchKey(linha.CLIENTE, tipo, hoje)}]
    /\ idx' = idx + 1
    /\ UNCHANGED <<config, db, world, files, pc, frame, wire, runs>>

\* lines 101-113: no phone after normalization, alert TI, no marker
Aniv_sem_celular ==
    /\ servico = "aniv" /\ pc = "loop" /\ idx <= Len(rows)
    /\ linha.CLIENTE # ""
    /\ ~aniv_ja_enviado(mem, linha.CLIENTE, hoje)
    /\ normalizar_celular_br(linha.CELULAR) = None
    /\ stats' = [stats EXCEPT !.sem_celular = @ + 1]
    /\ \E ok \in Outcomes :
          /\ ti_alerts' = notificar_ti_pedido_sem_celular(ti_alerts, "Aniversariante",
                                                          linha.CLIENTE, ok)
          /\ hist' = [hist EXCEPT !.faults = IF ok THEN @ ELSE @ + 1,
                                  !.invalido = @ \cup {DispatchKey(linha.CLIENTE, tipo, hoje)}]
    /\ idx' = idx + 1
    /\ UNCHANGED <<config, db, world, files, pc, frame, wire, runs>>

\* variant of aniv_marca: the marker is not set
aniv_marca_esquece(enviados_por_cliente, cliente_id, dia) == enviados_por_cliente

\* line 119: enviados_por_cliente[cliente_id] = hoje.isoformat()
aniv_marca(enviados_por_cliente, cliente_id, dia) ==
    [k \in DOMAIN enviados_por_cliente \cup {cliente_id} |->
        IF k = cliente_id THEN isoformat(dia) ELSE enviados_por_cliente[k]]

\* lines 117-119: send_text returned; the marker is set in memory
Aniv_send_ok ==
    /\ servico = "aniv" /\ pc = "loop" /\ idx <= Len(rows)
    /\ linha.CLIENTE # ""
    /\ ~aniv_ja_enviado(mem, linha.CLIENTE, hoje)
    /\ normalizar_celular_br(linha.CELULAR) # None
    /\ tried' = tried \cup {linha.CLIENTE}
    /\ sent' = sent \cup {linha.CLIENTE}
    /\ delivered' = Record(delivered, DispatchKey(linha.CLIENTE, tipo, hoje))
    /\ mem' = aniv_marca(mem, linha.CLIENTE, hoje)
    /\ pc' = "save"
    /\ UNCHANGED <<config, db, world, files, hoje, tipo, rows, idx, stats, runs, ti_alerts, hist>>

\* variant of Aniv_send_falha: the marker is set before send_text is called
Aniv_send_falha_marca ==
    /\ servico = "aniv" /\ pc = "loop" /\ idx <= Len(rows)
    /\ linha.CLIENTE # ""
    /\ ~aniv_ja_enviado(mem, linha.CLIENTE, hoje)
    /\ normalizar_celular_br(linha.CELULAR) # None
    /\ MayFail
    /\ tried' = tried \cup {linha.CLIENTE}
    /\ mem' = aniv_marca(mem, linha.CLIENTE, hoje)
    /\ stats' = [stats EXCEPT !.falhas = @ + 1]
    /\ hist' = [hist EXCEPT !.faults = @ + 1,
                            !.send_fault = TRUE,
                            !.falhou = @ \cup {DispatchKey(linha.CLIENTE, tipo, hoje)}]
    /\ idx' = idx + 1
    /\ UNCHANGED <<config, db, world, files, pc, hoje, tipo, rows, sent, delivered,
                   runs, ti_alerts>>

\* lines 118, 122-124: send_text raised (gateway error, timeout, network error)
Aniv_send_falha ==
    /\ servico = "aniv" /\ pc = "loop" /\ idx <= Len(rows)
    /\ linha.CLIENTE # ""
    /\ ~aniv_ja_enviado(mem, linha.CLIENTE, hoje)
    /\ normalizar_celular_br(linha.CELULAR) # None
    /\ MayFail
    /\ tried' = tried \cup {linha.CLIENTE}
    /\ stats' = [stats EXCEPT !.falhas = @ + 1]
    /\ hist' = [hist EXCEPT !.faults = @ + 1,
                            !.send_fault = TRUE,
                            !.falhou = @ \cup {DispatchKey(linha.CLIENTE, tipo, hoje)}]
    /\ idx' = idx + 1
    /\ UNCHANGED <<config, db, world, files, pc, frame, sent, delivered, runs, ti_alerts>>

\* save_aniversarios_enviados, first half: _ensure_state_dir() and open(..., "w").
\* makedirs is outside the try, so its error reaches the caller's except (falhas);
\* an error of open is swallowed; a successful open truncates the file
Aniv_save_open ==
    /\ servico = "aniv" /\ pc = "save"
    /\ \E r \in {"ok", "makedirs_raises", "open_raises"} :
          \/ /\ r = "ok"
             /\ file_aniv' = FileInvalid
             /\ pc' = "dump"
             /\ UNCHANGED <<idx, stats, hist>>
          \/ /\ r = "makedirs_raises"
             /\ MayFail
             /\ stats' = [stats EXCEPT !.falhas = @ + 1]
             /\ hist' = [hist EXCEPT !.faults = @ + 1, !.save_fault = TRUE]
             /\ idx' = idx + 1
             /\ pc' = "loop"
             /\ UNCHANGED file_aniv
          \/ /\ r = "open_raises"
             /\ MayFail
             /\ stats' = [stats EXCEPT !.enviados = @ + 1]
             /\ hist' = [hist EXCEPT !.faults = @ + 1, !.save_fault = TRUE]
             /\ idx' = idx + 1
             /\ pc' = "loop"
             /\ UNCHANGED file_aniv
    /\ UNCHANGED <<config, db, world, file_fest, frame, wire, runs, ti_alerts>>

\* save_aniversarios_enviados, second half: json.dump and close; an error while
\* writing is swallowed and leaves the truncated file; then line 121
Aniv_save_dump ==
    /\ servico = "aniv" /\ pc = "dump"
    /\ \E written \in Outcomes :
          /\ file_aniv' = IF written THEN dump_aniversarios(mem) ELSE FileInvalid
          /\ hist' = [hist EXCEPT !.faults = IF written THEN @ ELSE @ + 1,
                                  !.save_fault = @ \/ ~written,
                                  !.gravados = IF written
                                               THEN Gravar(@, {<<c, tipo>> : c \in DOMAIN mem}, runs)
                                               ELSE @]
    /\ stats' = [stats EXCEPT !.enviados = @ + 1]
    /\ idx' = idx + 1
    /\ pc' = "loop"
    /\ UNCHANGED <<config, db, world, file_fest, frame, wire, runs, ti_alerts>>

\* line 126: return stats
Aniv_return ==
    /\ servico = "aniv" /\ pc = "loop" /\ idx > Len(rows)
    /\ pc' = "done"
    /\ UNCHANGED <<config, db, world, files, frame, idx, stats, wire, runs, ti_alerts, hist>>

-----------------------------------------------------------------------------
(* run_notifier.should_run_festividade *)

NoTipo == "None"

Tipos == {"natal", "ano_novo"}

\* variant of should_run_festividade: christmas is selected on the 25th as well
should_run_festividade_dia25(t) ==
    IF t.m # 12 THEN NoTipo
    ELSE IF t.hh < 22 THEN NoTipo
    ELSE IF t.d \in {24, 25} THEN "natal"
    ELSE IF t.d = 31 THEN "ano_novo"
    ELSE NoTipo

\* run_notifier lines 57-70
should_run_festividade(t) ==
    IF t.m # 12 THEN NoTipo
    ELSE IF t.hh < 22 THEN NoTipo
    ELSE IF t.d = 24 THEN "natal"
    ELSE IF t.d = 31 THEN "ano_novo"
    ELSE NoTipo

-----------------------------------------------------------------------------
(* festividades_service.processar_festividades, called by run_notifier.main *)

\* the CLIENTE column of the rows FESTIVIDADES_SQL returns
ContatosIds == <<"c1", "", "c2", "c1">>

\* rows of FESTIVIDADES_SQL: clients whose phone is neither NULL nor ''
buscar_contatos_festividade ==
    SelectSeq([i \in 1..Len(ContatosIds) |->
                  [CLIENTE |-> ContatosIds[i],
                   CELULAR |-> IF ContatosIds[i] \in Clients
                               THEN clientes[ContatosIds[i]]
                               ELSE FONE_OK]],
              LAMBDA r : r.CELULAR # <<>>)

\* lines 78-81: the workflow's own date guard
fora_da_data(t, dia) ==
    \/ t = "natal" /\ (dia.m # 12 \/ dia.d # 24)
    \/ t = "ano_novo" /\ (dia.m # 12 \/ dia.d # 31)

\* lines 104-108: registro_cliente.get(tipo) == hoje.isoformat()
fest_ja_enviado(enviados_por_cliente, cliente_id, t, dia) ==
    /\ cliente_id \in DOMAIN enviados_por_cliente
    /\ t \in DOMAIN enviados_por_cliente[cliente_id]
    /\ enviados_por_cliente[cliente_id][t] = isoformat(dia)

\* variant of fest_marca: the marker is not set
fest_marca_esquece(enviados_por_cliente, cliente_id, t, dia) == enviados_por_cliente

\* variant of fest_marca: the client's record is replaced by one with this tipo only
fest_marca_substitui(enviados_por_cliente, cliente_id, t, dia) ==
    [k \in DOMAIN enviados_por_cliente \cup {cliente_id} |->
        IF k = cliente_id THEN [x \in {t} |-> isoformat(dia)] ELSE enviados_por_cliente[k]]

\* lines 125-126: registro_cliente[tipo] = hoje.isoformat()
fest_marca(enviados_por_cliente, cliente_id, t, dia) ==
    LET registro_cliente == IF cliente_id \in DOMAIN enviados_por_cliente
                            THEN enviados_por_cliente[cliente_id]
                            ELSE EmptyDict
        novo == [k \in DOMAIN registro_cliente \cup {t} |->
                    IF k = t THEN isoformat(dia) ELSE registro_cliente[k]]
    IN [k \in DOMAIN enviados_por_cliente \cup {cliente_id} |->
           IF k = cliente_id THEN novo ELSE enviados_por_cliente[k]]

\* run_notifier lines 120-123 and festividades_service lines 73-95: the gate of the
\* loop, the date guard, the load of the state file, the candidate query
Fest_inicio ==
    /\ servico = "fest"
    /\ pc = "idle"
    /\ runs < MaxRuns
    /\ should_run_festividade(agora) # NoTipo
    /\ runs' = runs + 1
    /\ hoje' = date_of(agora)
    /\ tipo' = should_run_festividade(agora)
    /\ idx' = 1
    /\ IF fora_da_data(should_run_festividade(agora), date_of(agora))
       THEN /\ pc' = "done"
            /\ stats' = [erro |-> "Fora da data"]
            /\ UNCHANGED <<rows, mem>>
       ELSE /\ pc' = "loop"
            /\ mem' = load_festividades_enviados(file_fest)
            /\ rows' = buscar_contatos_festividade
            /\ stats' = [ZeroStats EXCEPT !.total = Len(buscar_contatos_festividade)]
    /\ UNCHANGED <<config, db, world, files, wire, ti_alerts, hist>>

\* lines 101-102: if not cliente_id: continue
Fest_sem_id ==
    /\ servico = "fest" /\ pc = "loop" /\ idx <= Len(rows)
    /\ linha.CLIENTE = ""
    /\ idx' = idx + 1
    /\ UNCHANGED <<config, db, world, files, pc, frame, stats, wire, runs, ti_alerts, hist>>

\* lines 104-108
Fest_ja_enviado ==
    /\ servico = "fest" /\ pc = "loop" /\ idx <= Len(rows)
    /\ linha.CLIENTE # ""
    /\ fest_ja_enviado(mem, linha.CLIENTE, tipo, hoje)
    /\ stats' = [stats EXCEPT !.ja_enviados = @ + 1]
    /\ idx' = idx + 1
    /\ UNCHANGED <<config, db, world, files, pc, frame, wire, runs, ti_alerts, hist>>

\* lines 112-118: no phone after normalization; no alert, no marker, no pause
Fest_sem_celular ==
    /\ servico = "fest" /\ pc = "loop" /\ idx <= Len(rows)
    /\ linha.CLIENTE # ""
    /\ ~fest_ja_enviado(mem, linha.CLIENTE, tipo, hoje)
    /\ normalizar_celular_br(linha.CELULAR) = None
    /\ stats' = [stats EXCEPT !.sem_celular = @ + 1]
    /\ hist' = [hist EXCEPT !.invalido = @ \cup {DispatchKey(linha.CLIENTE, tipo, hoje)}]
    /\ idx' = idx + 1
    /\ UNCHANGED <<config, db, world, files, pc, frame, wire, runs, ti_alerts>>

\* lines 123-126: send_text returned; the marker is set in memory
Fest_send_ok ==
    /\ servico = "fest" /\ pc = "loop" /\ idx <= Len(rows)
    /\ linha.CLIENTE # ""
    /\ ~fest_ja_enviado(mem, linha.CLIENTE, tipo, hoje)
    /\ normalizar_celular_br(linha.CELULAR) # None
    /\ tried' = tried \cup {linha.CLIENTE}
    /\ sent' = sent \cup {linha.CLIENTE}
    /\ delivered' = Record(delivered, DispatchKey(linha.CLIENTE, tipo, hoje))
    /\ mem' = fest_marca(mem, linha.CLIENTE, tipo, hoje)
    /\ pc' = "save"
    /\ UNCHANGED <<config, db, world, files, hoje, tipo, rows, idx, stats, runs, ti_alerts, hist>>

\* variant of Fest_send_falha: no pause after a delivery that failed
Fest_send_falha_sem_pausa ==
    /\ servico = "fest" /\ pc = "loop" /\ idx <= Len(rows)
    /\ linha.CLIENTE # ""
    /\ ~fest_ja_enviado(mem, linha.CLIENTE, tipo, hoje)
    /\ normalizar_celular_br(linha.CELULAR) # None
    /\ MayFail
    /\ tried' = tried \cup {linha.CLIENTE}
    /\ stats' = [stats EXCEPT !.falhas = @ + 1]
    /\ hist' = [hist EXCEPT !.faults = @ + 1,
                            !.send_fault = TRUE,
                            !.falhou = @ \cup {DispatchKey(linha.CLIENTE, tipo, hoje)}]
    /\ idx' = idx + 1
    /\ pc' = "loop"
    /\ UNCHANGED <<config, db, world, files, frame, sent, delivered, runs, ti_alerts>>

\* lines 124, 130-133: send_text raised; the pause follows
Fest_send_falha ==
    /\ servico = "fest" /\ pc = "loop" /\ idx <= Len(rows)
    /\ linha.CLIENTE # ""
    /\ ~fest_ja_enviado(mem, linha.CLIENTE, tipo, hoje)
    /\ normalizar_celular_br(linha.CELULAR) # None
    /\ MayFail
    /\ tried' = tried \cup {linha.CLIENTE}
    /\ stats' = [stats EXCEPT !.falhas = @ + 1]
    /\ hist' = [hist EXCEPT !.faults = @ + 1,
                            !.send_fault = TRUE,
                            !.falhou = @ \cup {DispatchKey(linha.CLIENTE, tipo, hoje)}]
    /\ pc' = "sleep"
    /\ UNCHANGED <<config, db, world, files, frame, idx, sent, delivered, runs, ti_alerts>>

\* save_festividades_enviados, first half: _ensure_state_dir() and open(..., "w")
Fest_save_open ==
    /\ servico = "fest" /\ pc = "save"
    /\ \E r \in {"ok", "makedirs_raises", "open_raises"} :
          \/ /\ r = "ok"
             /\ file_fest' = FileInvalid
             /\ pc' = "dump"
             /\ UNCHANGED <<stats, hist>>
          \/ /\ r = "makedirs_raises"
             /\ MayFail
             /\ stats' = [stats EXCEPT !.falhas = @ + 1]
             /\ hist' = [hist EXCEPT !.faults = @ + 1, !.save_fault = TRUE]
             /\ pc' = "sleep"
             /\ UNCHANGED file_fest
          \/ /\ r = "open_raises"
             /\ MayFail
             /\ stats' = [stats EXCEPT !.enviados = @ + 1]
             /\ hist' = [hist EXCEPT !.faults = @ + 1, !.save_fault = TRUE]
             /\ pc' = "sleep"
             /\ UNCHANGED file_fest
    /\ UNCHANGED <<config, db, world, file_aniv, frame, idx, wire, runs, ti_alerts>>

\* save_festividades_enviados, second half: json.dump and close; then line 128
Fest_save_dump ==
    /\ servico = "fest" /\ pc = "dump"
    /\ \E written \in Outcomes :
          /\ file_fest' = IF written THEN dump_festividades(mem) ELSE FileInvalid
          /\ hist' = [hist EXCEPT !.faults = IF written THEN @ ELSE @ + 1,
                                  !.save_fault = @ \/ ~written,
                                  !.gravados = IF written
                                               THEN Gravar(@, {k \in (DOMAIN mem) \X Tipos :
                                                                  k[2] \in DOMAIN mem[k[1]]}, runs)
                                               ELSE @]
    /\ stats' = [stats EXCEPT !.enviados = @ + 1]
    /\ pc' = "sleep"
    /\ UNCHANGED <<config, db, world, file_aniv, frame, idx, wire, runs, ti_alerts>>

\* the pauses of a call add up: the clock may reach the next instant during one
\* of them when that instant is on the same day or on the day after
PassaDurantePausa(n) ==
    /\ n < Len(Timeline)
    /\ DayNumber(date_of(Timeline[n + 1])) - DayNumber(date_of(Timeline[n])) <= 1

\* lines 134-136: time.sleep(10) after an attempted send
Fest_sleep ==
    /\ servico = "fest" /\ pc = "sleep"
    /\ idx' = idx + 1
    /\ pc' = "loop"
    /\ now' \in {now} \cup (IF PassaDurantePausa(now) THEN {now + 1} ELSE {})
    /\ UNCHANGED <<config, db, clientes, files, frame, stats, wire, runs, ti_alerts, hist>>

\* line 138: return stats
Fest_return ==
    /\ servico = "fest" /\ pc = "loop" /\ idx > Len(rows)
    /\ pc' = "done"
    /\ UNCHANGED <<config, db, world, files, frame, idx, stats, wire, runs, ti_alerts, hist>>

-----------------------------------------------------------------------------
(* cobranca_service: configuration, gate, log table, candidate query *)

\* os.getenv("COBRANCA_HORARIO_INICIO", "09:00"), os.getenv("COBRANCA_HORARIO_FIM", "17:59")
COBRANCA_HORARIO_INICIO == <<"0", "9", ":", "0", "0">>
COBRANCA_HORARIO_FIM == <<"1", "7", ":", "5", "9">>

TI_DEDUP_CATEGORIA == "TI_TELEFONE_INVALIDO"

DigitVal(ch) == (CHOOSE i \in 1..10 : Digits[i] = ch) - 1

\* re.match(r"^(\d{2}):(\d{2})$", s); without a match (9, 0)
parse_hhmm(s) ==
    IF /\ Len(s) = 5
       /\ IsDigit(s[1]) /\ IsDigit(s[2]) /\ s[3] = ":" /\ IsDigit(s[4]) /\ IsDigit(s[5])
    THEN <<10 * DigitVal(s[1]) + DigitVal(s[2]), 10 * DigitVal(s[4]) + DigitVal(s[5])>>
    ELSE <<9, 0>>

\* datetime.replace(hour=h, minute=m) and datetime.time(h, m) raise ValueError
\* outside 0..23 and 0..59
hora_valida(h, m) == 0 <= h /\ h <= 23 /\ 0 <= m /\ m <= 59

\* seconds since midnight
segundos(t) == 3600 * t.hh + 60 * t.mm + t.ss

\* variant of within_business_hours: the end of the window is second 0 of its minute
within_business_hours_exclusivo(t, inicio, fim) ==
    LET ini == parse_hhmm(inicio)
        fi == parse_hhmm(fim)
    IN IF ~hora_valida(ini[1], ini[2]) \/ ~hora_valida(fi[1], fi[2])
       THEN "ValueError"
       ELSE IF /\ 3600 * ini[1] + 60 * ini[2] <= segundos(t)
               /\ segundos(t) <= 3600 * fi[1] + 60 * fi[2]
       THEN "True"
       ELSE "False"

\* _is_within_business_hours for a configuration: start <= now <= end, start at
\* second 0 of its minute and end at second 59.999999 of its minute
within_business_hours(t, inicio, fim) ==
    LET ini == parse_hhmm(inicio)
        fi == parse_hhmm(fim)
    IN IF ~hora_valida(ini[1], ini[2]) \/ ~hora_valida(fi[1], fi[2])
       THEN "ValueError"
       ELSE IF /\ 3600 * ini[1] + 60 * ini[2] <= segundos(t)
               /\ segundos(t) <= 3600 * fi[1] + 60 * fi[2] + 59
       THEN "True"
       ELSE "False"

\* variant of is_within_business_hours: the gate is always open
is_within_business_hours_aberto(t) == "True"

\* the gate with the configuration of the process
is_within_business_hours(t) ==
    within_business_hours(t, COBRANCA_HORARIO_INICIO, COBRANCA_HORARIO_FIM)

\* gerar_categorias(): the categories in force
gerar_categorias(dia) == << <<"vence_hoje", dia>> >>

\* the rows of financeiro_mov that are open receivables (operacao 'E', status 'P',
\* not received, not grouped), ordered by mfi_data_vencimento, joined with clientes
FinanceiroMov ==
    << [mfi_codigo |-> "m1", mfi_cliente |-> "c1", mfi_data_vencimento |-> [y |-> 2025, m |-> 12, d |-> 24]],
       [mfi_codigo |-> "m2", mfi_cliente |-> "c1", mfi_data_vencimento |-> [y |-> 2025, m |-> 12, d |-> 24]],
       [mfi_codigo |-> "m3", mfi_cliente |-> "c2", mfi_data_vencimento |-> [y |-> 2025, m |-> 12, d |-> 24]] >>

Cobrancas == {FinanceiroMov[i].mfi_codigo : i \in 1..Len(FinanceiroMov)}

\* a row of log_envio_whatsapp
LogRow(id_cobranca, categoria, status_envio, dia) ==
    [id_cobranca |-> id_cobranca, categoria |-> categoria,
     status_envio |-> status_envio, data_envio |-> dia]

\* variant of build_filtro_log: a row of any status excludes the document
build_filtro_log_qualquer(tabela, categoria, id_cobranca, dia) ==
    ~\E l \in tabela : l.id_cobranca = id_cobranca /\ l.categoria = categoria

\* _build_filtro_log: NOT EXISTS (an OK row of the document and the category),
\* for "vencida_mais_30_dias" an OK row of the last 5 days
build_filtro_log(tabela, categoria, id_cobranca, dia) ==
    IF categoria = "vencida_mais_30_dias"
    THEN ~\E l \in tabela : /\ l.id_cobranca = id_cobranca
                            /\ l.categoria = categoria
                            /\ l.status_envio = "OK"
                            /\ DayNumber(dia) - DayNumber(l.data_envio) < 5
    ELSE ~\E l \in tabela : /\ l.id_cobranca = id_cobranca
                            /\ l.categoria = categoria
                            /\ l.status_envio = "OK"

\* ti_ja_notificado: an OK row of the document in the TI category
ti_ja_notificado(tabela, id_cobranca) ==
    \E l \in tabela : /\ l.id_cobranca = id_cobranca
                      /\ l.categoria = TI_DEDUP_CATEGORIA
                      /\ l.status_envio = "OK"

\* buscar_cobrancas_por_categoria: COBRANCA_SQL_BASE with the log filter
buscar_cobrancas_por_categoria(tabela, data_inicial, data_final, categoria, dia) ==
    LET sel == SelectSeq(FinanceiroMov,
                   LAMBDA r : /\ DayNumber(data_inicial) <= DayNumber(r.mfi_data_vencimento)
                              /\ DayNumber(r.mfi_data_vencimento) <= DayNumber(data_final)
                              /\ build_filtro_log(tabela, categoria, r.mfi_codigo, dia))
    IN [i \in 1..Len(sel) |->
           [mfi_codigo |-> sel[i].mfi_codigo,
            cli_codigo |-> sel[i].mfi_cliente,
            telefone |-> clientes[sel[i].mfi_cliente],
            data_vencimento |-> sel[i].mfi_data_vencimento]]

RECURSIVE first_seen(_, _)
\* the keys of grupos in the order setdefault inserts them
first_seen(itens, seen) ==
    IF itens = <<>> THEN <<>>
    ELSE IF Head(itens).cli_codigo \in seen THEN first_seen(Tail(itens), seen)
    ELSE <<Head(itens).cli_codigo>>
         \o first_seen(Tail(itens), seen \cup {Head(itens).cli_codigo})

\* variant of agrupar: one group per document
agrupar_por_documento(itens) ==
    [i \in 1..Len(itens) |->
        [cli_codigo |-> itens[i].cli_codigo,
         telefone |-> itens[i].telefone,
         itens_cli |-> <<itens[i].mfi_codigo>>]]

\* lines 323-326: one group per (cli_codigo, cli_nome, telefone); the name and the
\* phone are columns of the client's one row of clientes
agrupar(itens) ==
    LET keys == first_seen(itens, {})
    IN [i \in 1..Len(keys) |->
           LET itens_cli == SelectSeq(itens, LAMBDA it : it.cli_codigo = keys[i])
           IN [cli_codigo |-> keys[i],
               telefone |-> itens_cli[1].telefone,
               itens_cli |-> [j \in 1..Len(itens_cli) |-> itens_cli[j].mfi_codigo]]]

\* DispatchKey of a document in a category: no period
KeyCob(id_cobranca, categoria) == <<id_cobranca, categoria, <<>>>>

\* registrar_envio for the first k documents of a list
registrar_envios(tabela, ids, k, categoria, status_envio, dia) ==
    tabela \cup {LogRow(ids[j], categoria, status_envio, dia) : j \in 1..k}

\* lines 386-396: registrar_envio "ERRO" for each document, each in its own try
registrar_erros(tabela, ids, categoria, dia) ==
    tabela \cup {LogRow(i, categoria, "ERRO", dia) : i \in ids}

RECURSIVE RecordAll(_, _)
RecordAll(h, keys) ==
    IF keys = <<>> THEN h ELSE RecordAll(Record(h, Head(keys)), Tail(keys))

Range(q) == {q[i] : i \in 1..Len(q)}

-----------------------------------------------------------------------------
(* cobranca_service.processar_cobrancas *)

ZeroCob ==
    [ok |-> TRUE, skipped |-> FALSE, itens_consultados |-> 0, cobrancas_marcadas_ok |-> 0,
     clientes_processados |-> 0, telefones_invalidos |-> 0, ti_notificados |-> 0,
     erros_envio |-> 0]

\* lines 288-328: the gate, the categories in force, the candidate query, the groups
Cob_inicio ==
    /\ servico = "cob"
    /\ pc = "idle"
    /\ runs < MaxRuns
    /\ runs' = runs + 1
    /\ hoje' = date_of(agora)
    /\ idx' = 1
    /\ IF is_within_business_hours(agora) = "ValueError"
       THEN /\ pc' = "raised"
            /\ UNCHANGED <<tipo, rows, stats>>
       ELSE IF is_within_business_hours(agora) = "False"
       THEN /\ pc' = "done"
            /\ stats' = [ok |-> TRUE, skipped |-> TRUE]
            /\ UNCHANGED <<tipo, rows>>
       ELSE LET cat == gerar_categorias(date_of(agora))[1]
                itens == buscar_cobrancas_por_categoria(log, cat[2], cat[2], cat[1],
                                                        date_of(agora))
            IN /\ tipo' = cat[1]
               /\ rows' = agrupar(itens)
               /\ stats' = [ZeroCob EXCEPT !.itens_consultados = Len(itens)]
               /\ pc' = "loop"
    /\ UNCHANGED <<config, db, world, files, mem, wire, ti_alerts, hist>>

\* the group the for loop is at
grupo == rows[idx]

\* lines 331-358: the phone of the group does not normalize. The TI channel is
\* alerted about the documents it was not yet alerted about; the lookups are outside
\* any try; an error of send_text or of a log write ends the writes and is logged
Cob_telefone_invalido ==
    /\ servico = "cob" /\ pc = "loop" /\ idx <= Len(rows)
    /\ normalizar_celular_br(grupo.telefone) = None
    /\ LET contado == [stats EXCEPT !.clientes_processados = @ + 1,
                                    !.telefones_invalidos = @ + 1]
           pendentes_ti == SelectSeq(grupo.itens_cli, LAMBDA i : ~ti_ja_notificado(log, i))
       IN \/ /\ ~ti_phone \/ pendentes_ti = <<>>
             /\ stats' = contado
             /\ idx' = idx + 1
             /\ UNCHANGED <<pc, log, ti_alerts, hist>>
          \/ /\ ti_phone /\ MayFail
             /\ stats' = contado
             /\ pc' = "raised"
             /\ hist' = [hist EXCEPT !.faults = @ + 1]
             /\ UNCHANGED <<idx, log, ti_alerts>>
          \/ /\ ti_phone /\ pendentes_ti # <<>> /\ MayFail
             /\ stats' = contado
             /\ idx' = idx + 1
             /\ hist' = [hist EXCEPT !.faults = @ + 1]
             /\ UNCHANGED <<pc, log, ti_alerts>>
          \/ /\ ti_phone /\ pendentes_ti # <<>>
             /\ \E k \in 0..Len(pendentes_ti) :
                   /\ k < Len(pendentes_ti) => MayFail
                   /\ log' = registrar_envios(log, pendentes_ti, k, TI_DEDUP_CATEGORIA,
                                              "OK", hoje)
                   /\ hist' = [hist EXCEPT !.faults = IF k < Len(pendentes_ti) THEN @ + 1 ELSE @,
                                           !.save_fault = @ \/ k < Len(pendentes_ti)]
             /\ ti_alerts' = StampAll(ti_alerts, [j \in 1..Len(pendentes_ti) |->
                                                     <<"Cobranca", pendentes_ti[j]>>], runs)
             /\ stats' = [contado EXCEPT !.ti_notificados = @ + 1]
             /\ idx' = idx + 1
             /\ UNCHANGED pc
    /\ UNCHANGED <<config, status_ped, status_nota, world, files, frame, wire, runs>>

\* lines 360-396: one message for the group. After send_text an OK row is written
\* for each document, each in its own transaction; an error of send_text or of one
\* of these writes reaches the except, which counts erros_envio and tries to write
\* an ERRO row for each document of the group
Cob_envia ==
    /\ servico = "cob" /\ pc = "loop" /\ idx <= Len(rows)
    /\ normalizar_celular_br(grupo.telefone) # None
    /\ LET n == Len(grupo.itens_cli)
           contado == [stats EXCEPT !.clientes_processados = @ + 1]
           keys == [j \in 1..n |-> KeyCob(grupo.itens_cli[j], tipo)]
       IN \/ /\ MayFail
             /\ \E gravados \in SUBSET Range(grupo.itens_cli) :
                   log' = registrar_erros(log, gravados, tipo, hoje)
             /\ stats' = [contado EXCEPT !.erros_envio = @ + 1]
             /\ tried' = tried \cup Range(grupo.itens_cli)
             /\ hist' = [hist EXCEPT !.faults = @ + 1,
                                     !.send_fault = TRUE,
                                     !.falhou = @ \cup Range(keys)]
             /\ UNCHANGED <<sent, delivered>>
          \/ /\ \E k \in 0..n, gravados \in SUBSET Range(grupo.itens_cli) :
                   /\ k < n => MayFail
                   /\ k = n => gravados = {}
                   /\ log' = registrar_erros(
                                 registrar_envios(log, grupo.itens_cli, k, tipo, "OK", hoje),
                                 gravados, tipo, hoje)
                   /\ stats' = [contado EXCEPT !.cobrancas_marcadas_ok = @ + k,
                                               !.erros_envio = IF k < n THEN @ + 1 ELSE @]
                   /\ hist' = [hist EXCEPT !.faults = IF k < n THEN @ + 1 ELSE @,
                                           !.save_fault = @ \/ k < n]
             /\ tried' = tried \cup Range(grupo.itens_cli)
             /\ sent' = sent \cup Range(grupo.itens_cli)
             /\ delivered' = RecordAll(delivered, keys)
    /\ idx' = idx + 1
    /\ UNCHANGED <<config, status_ped, status_nota, world, files, pc, frame, runs, ti_alerts>>

\* lines 398-407: the summary
Cob_return ==
    /\ servico = "cob" /\ pc = "loop" /\ idx > Len(rows)
    /\ pc' = "done"
    /\ UNCHANGED <<config, db, world, files, frame, idx, stats, wire, runs, ti_alerts, hist>>

-----------------------------------------------------------------------------
(* notifier_service.processar_pedidos_pendentes *)

RECURSIVE lstrip(_)
lstrip(s) == IF s # <<>> /\ Head(s) = " " THEN lstrip(Tail(s)) ELSE s

RECURSIVE rstrip(_)
rstrip(s) == IF s # <<>> /\ s[Len(s)] = " " THEN rstrip(SubSeq(s, 1, Len(s) - 1)) ELSE s

\* str.strip()
strip(s) == rstrip(lstrip(s))

\* CV_PEDCAB_NOTIFICA in the order of the query
PedidosSeq == <<"p1", "p2">>

\* fetch_pendentes: WHERE STATUS = 'P'
fetch_pendentes == SelectSeq(PedidosSeq, LAMBDA o : status_ped[o] = STATUS_PENDENTE)

KeyPed(o) == <<o, "pedido", <<>>>>

ZeroLote(n) == [total |-> n, enviados |-> 0, falhas |-> 0]

\* lines 275-278
Ped_inicio ==
    /\ servico = "ped"
    /\ pc = "idle"
    /\ runs < MaxRuns
    /\ runs' = runs + 1
    /\ hoje' = date_of(agora)
    /\ tipo' = "pedido"
    /\ idx' = 1
    /\ \/ /\ rows' = fetch_pendentes
          /\ stats' = ZeroLote(Len(fetch_pendentes))
          /\ pc' = "loop"
          /\ UNCHANGED hist
       \/ /\ MayFail
          /\ pc' = "raised"
          /\ hist' = [hist EXCEPT !.faults = @ + 1]
          /\ UNCHANGED <<rows, stats>>
    /\ UNCHANGED <<config, db, world, files, mem, wire, ti_alerts>>

\* the order the for loop is at
pedido == rows[idx]

\* line 292
raw_phone == strip(clientes[ClienteDe[pedido]])

\* variant of Ped_except: the failure is counted only when the update worked
Ped_except_conta_se_gravou(gravou) ==
    /\ status_ped' = IF gravou THEN [status_ped EXCEPT ![pedido] = STATUS_FALHA]
                     ELSE status_ped
    /\ stats' = [stats EXCEPT !.falhas = IF gravou THEN @ + 1 ELSE @]

\* lines 313-321: the except of the loop body; the update to 'F' is in its own try
Ped_except(gravou) ==
    /\ status_ped' = IF gravou THEN [status_ped EXCEPT ![pedido] = STATUS_FALHA]
                     ELSE status_ped
    /\ stats' = [stats EXCEPT !.falhas = @ + 1]

\* lines 295-302: the phone does not normalize
Ped_celular_invalido ==
    /\ servico = "ped" /\ pc = "loop" /\ idx <= Len(rows)
    /\ normalizar_celular_br(raw_phone) = None
    /\ \/ /\ status_ped' = [status_ped EXCEPT ![pedido] = STATUS_PENDENTE]
          /\ \E ok \in Outcomes :
                /\ ti_alerts' = notificar_ti_pedido_sem_celular(ti_alerts, "Pedido", pedido, ok)
                /\ hist' = [hist EXCEPT !.faults = IF ok THEN @ ELSE @ + 1,
                                        !.invalido = @ \cup {KeyPed(pedido)}]
          /\ stats' = [stats EXCEPT !.falhas = @ + 1]
       \/ /\ MayFail
          /\ \E gravou \in BOOLEAN : Ped_except(gravou)
          /\ hist' = [hist EXCEPT !.faults = @ + 1, !.save_fault = TRUE]
          /\ UNCHANGED ti_alerts
    /\ idx' = idx + 1
    /\ UNCHANGED <<config, log, status_nota, world, files, pc, frame, wire, runs>>

\* lines 283-285, 307, 313-321: run_business_query or enviar_pdf_pedido raises
Ped_envia_falha ==
    /\ servico = "ped" /\ pc = "loop" /\ idx <= Len(rows)
    /\ MayFail
    /\ \E consulta \in BOOLEAN :
          /\ consulta => normalizar_celular_br(raw_phone) # None
          /\ tried' = IF consulta THEN tried \cup {pedido} ELSE tried
    /\ \E gravou \in BOOLEAN : Ped_except(gravou)
    /\ hist' = [hist EXCEPT !.faults = @ + 1,
                            !.send_fault = TRUE,
                            !.falhou = @ \cup {KeyPed(pedido)}]
    /\ idx' = idx + 1
    /\ UNCHANGED <<config, log, status_nota, world, files, pc, frame, sent, delivered,
                   runs, ti_alerts>>

\* lines 307-311: the PDF was delivered; the update to 'E' may raise and reach the except
Ped_envia_ok ==
    /\ servico = "ped" /\ pc = "loop" /\ idx <= Len(rows)
    /\ normalizar_celular_br(raw_phone) # None
    /\ tried' = tried \cup {pedido}
    /\ sent' = sent \cup {pedido}
    /\ delivered' = Record(delivered, KeyPed(pedido))
    /\ \/ /\ status_ped' = [status_ped EXCEPT ![pedido] = STATUS_ENVIADO]
          /\ stats' = [stats EXCEPT !.enviados = @ + 1]
          /\ UNCHANGED hist
       \/ /\ MayFail
          /\ \E gravou \in BOOLEAN : Ped_except(gravou)
          /\ hist' = [hist EXCEPT !.faults = @ + 1, !.save_fault = TRUE]
    /\ idx' = idx + 1
    /\ UNCHANGED <<config, log, status_nota, world, files, pc, frame, runs, ti_alerts>>

\* lines 323-327
Ped_return ==
    /\ servico = "ped" /\ pc = "loop" /\ idx > Len(rows)
    /\ pc' = "done"
    /\ UNCHANGED <<config, db, world, files, frame, idx, stats, wire, runs, ti_alerts, hist>>

-----------------------------------------------------------------------------
(* The gateway client's treatment of an HTTP response:                      *)
(* evolution_api.EvolutionAPI._handle_response and EvolutionAPIError         *)

\* the responses the gateway can give: a final status code (requests follows
\* a redirect that names a location, so a 3xx seen here is one without it,
\* such as 300 and 304) and a body: a JSON object, the JSON null, a text that
\* is not JSON, no body at all
EvoRespostas ==
    [
     status |-> {200, 201, 204, 300, 304, 400, 401, 404, 500, 503},
     corpos |-> {[json |-> TRUE, value |-> "objeto"], [json |-> TRUE, value |-> "null"],
                 [json |-> FALSE, value |-> "texto"], [json |-> FALSE, value |-> ""]}
    ]

\* requests.Response.raise_for_status raises HTTPError for 4xx and 5xx only
raise_for_status(status_code) == 400 <= status_code /\ status_code < 600

\* EvolutionAPIError.__init__: "payload or {}" replaces a falsy payload (the
\* parsed null) with the empty dict
EvolutionAPIError(status_code, payload) ==
    [raised |-> TRUE, status_code |-> status_code,
     payload |-> IF payload = [json |-> "null"] THEN [dict |-> "vazio"] ELSE payload]

\* _handle_response(resp): the error with the parsed body, or the text when
\* resp.json() fails; otherwise the parsed body, or the raw text
handle_response(status_code, body) ==
    IF raise_for_status(status_code)
    THEN EvolutionAPIError(status_code,
                           IF body.json THEN [json |-> body.value] ELSE [text |-> body.value])
    ELSE [raised |-> FALSE, status_code |-> status_code,
          payload |-> IF body.json THEN [json |-> body.value] ELSE [raw |-> body.value]]

\* one request answered by the gateway
Evo_resposta ==
    /\ servico = "evo" /\ pc = "idle"
    /\ \E status_code \in EvoRespostas.status, body \in EvoRespostas.corpos :
          stats' = [status |-> status_code, body |-> body,
                    resp |-> handle_response(status_code, body)]
    /\ pc' = "done"
    /\ UNCHANGED <<config, db, world, files, frame, idx, wire, runs, ti_alerts, hist>>

-----------------------------------------------------------------------------
(* danfe_service.processar_notas_pendentes *)

\* CV_DANFE_VENDA_NOTIFICA in the order of the query
NotasSeq == <<"n1", "n2">>

\* buscar_notas_pendentes: WHERE STATUS = 'P'
buscar_notas_pendentes == SelectSeq(NotasSeq, LAMBDA n : status_nota[n] = STATUS_PENDENTE)

KeyNota(n) == <<n, "nfe", <<>>>>

\* variant of status_apos_falha: the status the orders workflow writes
status_apos_falha_F == STATUS_FALHA

\* the status the except branches write (lines 312, 337)
status_apos_falha == STATUS_PENDENTE

\* lines 215-221
Notas_inicio ==
    /\ servico = "notas"
    /\ pc = "idle"
    /\ runs < MaxRuns
    /\ runs' = runs + 1
    /\ hoje' = date_of(agora)
    /\ tipo' = "nfe"
    /\ idx' = 1
    /\ \/ /\ rows' = buscar_notas_pendentes
          /\ stats' = ZeroLote(Len(buscar_notas_pendentes))
          /\ pc' = "loop"
          /\ UNCHANGED hist
       \/ /\ MayFail
          /\ pc' = "raised"
          /\ hist' = [hist EXCEPT !.faults = @ + 1]
          /\ UNCHANGED <<rows, stats>>
    /\ UNCHANGED <<config, db, world, files, mem, wire, ti_alerts>>

\* the note the for loop is at
nota == rows[idx]

\* line 225
cel_raw == clientes[ClienteDe[nota]]

\* lines 308-314 and 333-339: falhas += 1 and the update in its own try
Notas_except(gravou) ==
    /\ status_nota' = IF gravou THEN [status_nota EXCEPT ![nota] = status_apos_falha]
                      ELSE status_nota
    /\ stats' = [stats EXCEPT !.falhas = @ + 1]

\* lines 237-253: the phone does not normalize
Notas_celular_invalido ==
    /\ servico = "notas" /\ pc = "loop" /\ idx <= Len(rows)
    /\ normalizar_celular_br(cel_raw) = None
    /\ \/ /\ status_nota' = [status_nota EXCEPT ![nota] = STATUS_PENDENTE]
          /\ stats' = [stats EXCEPT !.falhas = @ + 1]
          /\ \E ok \in Outcomes :
                /\ ti_alerts' = notificar_ti_pedido_sem_celular(ti_alerts, "NF-e", nota, ok)
                /\ hist' = [hist EXCEPT !.faults = IF ok THEN @ ELSE @ + 1,
                                        !.invalido = @ \cup {KeyNota(nota)}]
       \/ /\ MayFail
          /\ \E gravou \in BOOLEAN : Notas_except(gravou)
          /\ hist' = [hist EXCEPT !.faults = @ + 1, !.save_fault = TRUE]
          /\ UNCHANGED ti_alerts
    /\ idx' = idx + 1
    /\ UNCHANGED <<config, log, status_ped, world, files, pc, frame, wire, runs>>

\* lines 258-283, 333-340: buscar_xml_nfe or gerar_danfe raises
Notas_erro_pdf ==
    /\ servico = "notas" /\ pc = "loop" /\ idx <= Len(rows)
    /\ normalizar_celular_br(cel_raw) # None
    /\ MayFail
    /\ \E gravou \in BOOLEAN : Notas_except(gravou)
    /\ hist' = [hist EXCEPT !.faults = @ + 1,
                            !.falhou = @ \cup {KeyNota(nota)},
                            !.erro = [tipo |-> "Exception", status_code |-> 0, ti_ok |-> FALSE]]
    /\ idx' = idx + 1
    /\ UNCHANGED <<config, log, status_ped, world, files, pc, frame, wire, runs, ti_alerts>>

\* what send_media raises: the EvolutionAPIError of _handle_response for a 4xx or
\* 5xx answer, or another exception (a timeout, a connection error) with no status
ErrosEnvio ==
    {[tipo |-> "EvolutionAPIError", status_code |-> c] :
        c \in {x \in EvoRespostas.status : raise_for_status(x)}}
    \cup {[tipo |-> "Exception", status_code |-> 0]}

\* variant of Notas_envia_falha: every gateway error alerts the TI channel
Notas_envia_falha_alerta_sempre ==
    /\ servico = "notas" /\ pc = "loop" /\ idx <= Len(rows)
    /\ normalizar_celular_br(cel_raw) # None
    /\ MayFail
    /\ tried' = tried \cup {nota}
    /\ \E gravou \in BOOLEAN : Notas_except(gravou)
    /\ \E e \in ErrosEnvio, ok \in BOOLEAN :
          LET alerta == e.tipo = "EvolutionAPIError"
          IN /\ ti_alerts' = IF alerta
                             THEN notificar_ti_pedido_sem_celular(ti_alerts, "NF-e", nota, ok)
                             ELSE ti_alerts
             /\ hist' = [hist EXCEPT !.faults = @ + 1,
                                     !.send_fault = TRUE,
                                     !.falhou = @ \cup {KeyNota(nota)},
                                     !.erro = [tipo |-> e.tipo, status_code |-> e.status_code,
                                               ti_ok |-> alerta /\ ok]]
    /\ idx' = idx + 1
    /\ UNCHANGED <<config, log, status_ped, world, files, pc, frame, sent, delivered, runs>>

\* lines 293-300, 308-340: send_media raises; both except branches count the
\* failure and write 'P'; an EvolutionAPIError of HTTP status 400 alerts the TI
\* channel
Notas_envia_falha ==
    /\ servico = "notas" /\ pc = "loop" /\ idx <= Len(rows)
    /\ normalizar_celular_br(cel_raw) # None
    /\ MayFail
    /\ tried' = tried \cup {nota}
    /\ \E gravou \in BOOLEAN : Notas_except(gravou)
    /\ \E e \in ErrosEnvio, ok \in BOOLEAN :
          LET alerta == e.tipo = "EvolutionAPIError" /\ e.status_code = 400
          IN /\ ti_alerts' = IF alerta
                             THEN notificar_ti_pedido_sem_celular(ti_alerts, "NF-e", nota, ok)
                             ELSE ti_alerts
             /\ hist' = [hist EXCEPT !.faults = @ + 1,
                                     !.send_fault = TRUE,
                                     !.falhou = @ \cup {KeyNota(nota)},
                                     !.erro = [tipo |-> e.tipo, status_code |-> e.status_code,
                                               ti_ok |-> alerta /\ ok]]
    /\ idx' = idx + 1
    /\ UNCHANGED <<config, log, status_ped, world, files, pc, frame, sent, delivered, runs>>

\* lines 293-306: send_media returned; the update to 'E' may raise and reach the except
Notas_envia_ok ==
    /\ servico = "notas" /\ pc = "loop" /\ idx <= Len(rows)
    /\ normalizar_celular_br(cel_raw) # None
    /\ tried' = tried \cup {nota}
    /\ sent' = sent \cup {nota}
    /\ delivered' = Record(delivered, KeyNota(nota))
    /\ \/ /\ status_nota' = [status_nota EXCEPT ![nota] = STATUS_ENVIADO]
          /\ stats' = [stats EXCEPT !.enviados = @ + 1]
          /\ UNCHANGED hist
       \/ /\ MayFail
          /\ \E gravou \in BOOLEAN : Notas_except(gravou)
          /\ hist' = [hist EXCEPT !.faults = @ + 1, !.save_fault = TRUE]
    /\ idx' = idx + 1
    /\ UNCHANGED <<config, log, status_ped, world, files, pc, frame, runs, ti_alerts>>

\* lines 342-346
Notas_return ==
    /\ servico = "notas" /\ pc = "loop" /\ idx > Len(rows)
    /\ pc' = "done"
    /\ UNCHANGED <<config, db, world, files, frame, idx, stats, wire, runs, ti_alerts, hist>>

-----------------------------------------------------------------------------
(* notifier_service.normalizar_celular_br as a function of its input: the    *)
(* inputs are written as a prefix (zeros, country code), an area code and a  *)
(* local number, plain or with separators, and the documented examples       *)

\* the parts the inputs are built from, and the inputs given whole
FoneEntradas ==
    [
     prefixos |->
         {<<>>, <<"0">>, <<"0", "0">>, <<"5", "5">>, <<"0", "5", "5">>,
          <<"+", "5", "5", " ">>},
     ddds |->
         {<<>>, <<"4", "6">>, <<"5", "4">>, <<"5", "5">>, <<"1", "1">>},
     locais |->
         {<<>>, <<"1", "2", "3">>, <<"9", "9", "1", "2", "2", "8", "2">>,
          <<"9", "9", "1", "2", "2", "8", "2", "6">>,
          <<"5", "5", "1", "2", "2", "8", "2", "6">>,
          <<"9", "9", "9", "1", "2", "2", "8", "2", "6">>,
          <<"1", "2", "3", "4", "5", "6", "7", "8", "9", "0", "1", "2">>},
     exemplos |->
         {<<"9", "9", "1", "2", "2", "8", "2", "6">>,
          <<"0", "4", "6", "9", "9", "9", "8", "2", "0", "1", "9", "8">>,
          <<"4", "6", " ", " ", "9", "9", "9", "1", "9", "3", "2", "1">>,
          <<"0", "5", "4", "9", "9", "9", "6", "7", "7", "9", "6">>, <<"1", "2", "3">>,
          <<"(", ")", " ", "-">>, <<" ">>}
    ]

\* the input as it is typed: digits only, or "(DD) NNNN-NNNN"
FoneEntrada(pre, ddd, loc, fmt) ==
    IF fmt = "plain" \/ Len(loc) < 5
    THEN pre \o ddd \o loc
    ELSE pre \o <<"(">> \o ddd \o <<")", " ">> \o SubSeq(loc, 1, Len(loc) - 4)
             \o <<"-">> \o SubSeq(loc, Len(loc) - 3, Len(loc))

\* normalizar_celular_br(raw) for an input built from its parts, and
\* normalizar_celular_br of what it returned
Fone_partes ==
    /\ servico = "fone" /\ pc = "idle"
    /\ \E pre \in FoneEntradas.prefixos, ddd \in FoneEntradas.ddds, loc \in FoneEntradas.locais, fmt \in {"plain", "sep"} :
          stats' = [raw |-> FoneEntrada(pre, ddd, loc, fmt),
                    pre |-> pre, ddd |-> ddd, loc |-> loc,
                    result |-> normalizar_celular_br(FoneEntrada(pre, ddd, loc, fmt)),
                    denovo |-> normalizar_celular_br(
                                   normalizar_celular_br(FoneEntrada(pre, ddd, loc, fmt)))]
    /\ pc' = "done"
    /\ UNCHANGED <<config, db, world, files, frame, idx, wire, runs, ti_alerts, hist>>

\* normalizar_celular_br(raw) for a documented example or a text without digits
Fone_exemplo ==
    /\ servico = "fone" /\ pc = "idle"
    /\ \E raw \in FoneEntradas.exemplos :
          stats' = [raw |-> raw, pre |-> None, ddd |-> None, loc |-> None,
                    result |-> normalizar_celular_br(raw),
                    denovo |-> normalizar_celular_br(normalizar_celular_br(raw))]
    /\ pc' = "done"
    /\ UNCHANGED <<config, db, world, files, frame, idx, wire, runs, ti_alerts, hist>>

-----------------------------------------------------------------------------
(* The time gates as functions of the clock, the configuration and the       *)
(* last-run file: cobranca_service._is_within_business_hours,                *)
(* run_notifier.should_run_weekly with state_manager.load_ultima_execucao_   *)
(* semana, run_notifier.should_run_festividade                               *)

\* os.getenv(name, default): None stands for a variable that is not set
getenv(valor, default) == IF valor = None THEN default ELSE valor

RECURSIVE DigitsValue(_)
DigitsValue(s) ==
    IF s = <<>> THEN 0 ELSE 10 * DigitsValue(SubSeq(s, 1, Len(s) - 1)) + DigitVal(s[Len(s)])

\* int(s): surrounding blanks and a sign are accepted, then decimal digits
py_int(s) ==
    LET st == strip(s)
        sinal == st # <<>> /\ Head(st) \in {"+", "-"}
        corpo == IF sinal THEN Tail(st) ELSE st
    IN IF corpo = <<>> \/ \E i \in 1..Len(corpo) : ~IsDigit(corpo[i])
       THEN [ok |-> FALSE, v |-> 0]
       ELSE [ok |-> TRUE,
             v |-> IF sinal /\ Head(st) = "-" THEN 0 - DigitsValue(corpo) ELSE DigitsValue(corpo)]

\* date.weekday(): 0 is Monday
weekday(d) == (DayNumber(d) + 6) % 7

DaysInMonth(y, m) ==
    IF m = 2 THEN (IF IsLeap(y) THEN 29 ELSE 28)
    ELSE IF m \in {4, 6, 9, 11} THEN 30 ELSE 31

\* date.fromisoformat("YYYY-MM-DD"); None for a text it raises ValueError for
fromisoformat(s) ==
    IF /\ Len(s) = 10
       /\ \A i \in {1, 2, 3, 4, 6, 7, 9, 10} : IsDigit(s[i])
       /\ s[5] = "-" /\ s[8] = "-"
    THEN LET y == DigitsValue(SubSeq(s, 1, 4))
             m == DigitsValue(SubSeq(s, 6, 7))
             d == DigitsValue(SubSeq(s, 9, 10))
         IN IF y >= 1 /\ m >= 1 /\ m <= 12 /\ d >= 1 /\ d <= DaysInMonth(y, m)
            THEN [y |-> y, m |-> m, d |-> d]
            ELSE None
    ELSE None

\* state/ultima_execucao_semana.txt: missing, unreadable, or a text
SemanaMissing == [kind |-> "missing", text |-> <<>>]
SemanaUnreadable == [kind |-> "unreadable", text |-> <<>>]
SemanaText(s) == [kind |-> "text", text |-> s]

\* load_ultima_execucao_semana: None when the file is missing, open raises, the
\* text is empty or fromisoformat raises
load_ultima_execucao_semana(f) ==
    IF f.kind = "missing" THEN None
    ELSE IF f.kind = "unreadable" THEN None
    ELSE IF strip(f.text) = <<>> THEN None
    ELSE fromisoformat(strip(f.text))

\* variant of should_run_weekly without the test of the last run
should_run_weekly_repete(dia, t, ultima_execucao, dia_env, hora_env, min_env) ==
    LET dia_config == py_int(getenv(dia_env, <<"0">>))
        hora_config == py_int(getenv(hora_env, <<"8">>))
        min_config == py_int(getenv(min_env, <<"0">>))
    IN IF ~dia_config.ok \/ ~hora_config.ok \/ ~min_config.ok THEN "ValueError"
       ELSE IF weekday(dia) # dia_config.v THEN "False"
       ELSE IF ~hora_valida(hora_config.v, min_config.v) THEN "ValueError"
       ELSE IF segundos(t) < 3600 * hora_config.v + 60 * min_config.v THEN "False"
       ELSE "True"

\* should_run_weekly with the values of PAY_REPORT_DAY_OF_WEEK, PAY_REPORT_HOUR and
\* PAY_REPORT_MINUTE; int() raises ValueError at the top, time(hour, minute) only
\* when the comparison of the hour is reached
should_run_weekly(dia, t, ultima_execucao, dia_env, hora_env, min_env) ==
    LET dia_config == py_int(getenv(dia_env, <<"0">>))
        hora_config == py_int(getenv(hora_env, <<"8">>))
        min_config == py_int(getenv(min_env, <<"0">>))
    IN IF ~dia_config.ok \/ ~hora_config.ok \/ ~min_config.ok THEN "ValueError"
       ELSE IF weekday(dia) # dia_config.v THEN "False"
       ELSE IF ultima_execucao = dia THEN "False"
       ELSE IF ~hora_valida(hora_config.v, min_config.v) THEN "ValueError"
       ELSE IF segundos(t) < 3600 * hora_config.v + 60 * min_config.v THEN "False"
       ELSE "True"

\* a reading of the clock
At(y, m, d, hh, mm, ss) == [y |-> y, m |-> m, d |-> d, hh |-> hh, mm |-> mm, ss |-> ss]

\* the clocks, the values of the environment variables and the contents of the
\* last-run file the gates are evaluated for
GateEntradas ==
    [
     inicio |->
         {None, <<"0", "8", ":", "3", "0">>, <<"9", "h">>, <<"2", "4", ":", "0", "0">>},
     fim |->
         {None, <<"1", "8", ":", "1", "5">>, <<"1", "8", "h">>,
          <<"1", "7", ":", "6", "0">>},
     horario |->
         {At(2025, 12, 24, 8, 29, 59), At(2025, 12, 24, 8, 30, 0),
          At(2025, 12, 24, 8, 59, 59), At(2025, 12, 24, 9, 0, 0),
          At(2025, 12, 24, 9, 0, 59), At(2025, 12, 24, 9, 1, 0),
          At(2025, 12, 24, 17, 59, 0), At(2025, 12, 24, 17, 59, 59),
          At(2025, 12, 24, 18, 0, 0), At(2025, 12, 24, 18, 15, 59),
          At(2025, 12, 24, 18, 16, 0)},
     dia |->
         {None, <<"2">>, <<"7">>, <<"q", "u", "a">>},
     hora |->
         {None, <<"1", "0">>, <<"2", "4">>, <<"x">>},
     minuto |->
         {None, <<"3", "0">>, <<"7", "5">>},
     semanal |->
         {At(2025, 12, 22, 7, 59, 59), At(2025, 12, 22, 8, 0, 0),
          At(2025, 12, 22, 10, 30, 0), At(2025, 12, 24, 8, 0, 0),
          At(2025, 12, 24, 10, 29, 59), At(2025, 12, 24, 10, 30, 0)},
     arquivo |->
         {SemanaMissing, SemanaUnreadable, SemanaText(<<>>),
          SemanaText(<<"o", "n", "t", "e", "m">>),
          SemanaText(isoformat([y |-> 2025, m |-> 12, d |-> 22]) \o <<" ">>), SemanaText(isoformat([y |-> 2025, m |-> 12, d |-> 24])), SemanaText(isoformat([y |-> 2025, m |-> 13, d |-> 24]))},
     festividade |->
         {At(2025, 11, 24, 22, 30, 0), At(2025, 12, 24, 21, 59, 59),
          At(2025, 12, 24, 22, 0, 0), At(2025, 12, 24, 23, 59, 59),
          At(2025, 12, 25, 0, 0, 0), At(2025, 12, 25, 22, 0, 0),
          At(2025, 12, 31, 21, 59, 59), At(2025, 12, 31, 22, 0, 0),
          At(2025, 12, 31, 23, 59, 59)}
    ]

\* _is_within_business_hours is evaluated for a clock and a configuration
Gate_horario ==
    /\ servico = "gates" /\ pc = "idle"
    /\ \E t \in GateEntradas.horario, inicio \in GateEntradas.inicio, fim \in GateEntradas.fim :
          stats' = [gate |-> "horario", t |-> t, inicio |-> inicio, fim |-> fim,
                    result |-> within_business_hours(
                                   t,
                                   strip(getenv(inicio, COBRANCA_HORARIO_INICIO)),
                                   strip(getenv(fim, COBRANCA_HORARIO_FIM)))]
    /\ pc' = "done"
    /\ UNCHANGED <<config, db, world, files, frame, idx, wire, runs, ti_alerts, hist>>

\* main: load_ultima_execucao_semana, then should_run_weekly(hoje, agora, ultima)
Gate_semanal ==
    /\ servico = "gates" /\ pc = "idle"
    /\ \E t \in GateEntradas.semanal, f \in GateEntradas.arquivo,
          dia_env \in GateEntradas.dia, hora_env \in GateEntradas.hora, min_env \in GateEntradas.minuto :
          stats' = [gate |-> "semanal", t |-> t, file |-> f,
                    dia |-> dia_env, hora |-> hora_env, minuto |-> min_env,
                    ultima |-> load_ultima_execucao_semana(f),
                    result |-> should_run_weekly(date_of(t), t,
                                                 load_ultima_execucao_semana(f),
                                                 dia_env, hora_env, min_env)]
    /\ pc' = "done"
    /\ UNCHANGED <<config, db, world, files, frame, idx, wire, runs, ti_alerts, hist>>

\* should_run_festividade is evaluated for a clock
Gate_festividade ==
    /\ servico = "gates" /\ pc = "idle"
    /\ \E t \in GateEntradas.festividade :
          stats' = [gate |-> "festividade", t |-> t, result |-> should_run_festividade(t)]
    /\ pc' = "done"
    /\ UNCHANGED <<config, db, world, files, frame, idx, wire, runs, ti_alerts, hist>>

-----------------------------------------------------------------------------
(* run_notifier.main: the polling loop. One cycle calls the birthday         *)
(* workflow, then evaluates the holiday gate and calls the holiday workflow, *)
(* each inside its own try/except Exception, then sleeps. A call is taken by *)
(* its outcome only: it returns its summary or an exception leaves it.       *)

\* the cycle counter stops counting at MaxRuns; the loop goes on
conta_ciclo(n) == IF n < MaxRuns THEN n + 1 ELSE n

\* lines 83-84, 107-108: agora, hoje, and processar_aniversariantes() is called
Main_aniv_inicio ==
    /\ servico = "main" /\ pc = "idle"
    /\ runs' = conta_ciclo(runs)
    /\ hoje' = date_of(agora)
    /\ stats' = [aniv |-> "running", fest |-> "-"]
    /\ pc' = "m_aniv"
    /\ UNCHANGED <<config, db, world, files, tipo, rows, mem, idx, wire, ti_alerts, hist>>

\* variant of Main_aniv_fim: no handler around the call, the exception ends main
Main_aniv_fim_sem_except ==
    /\ servico = "main" /\ pc = "m_aniv"
    /\ \E ok \in Outcomes :
          /\ stats' = [stats EXCEPT !.aniv = IF ok THEN "returned" ELSE "raised"]
          /\ hist' = [hist EXCEPT !.faults = IF ok THEN @ ELSE @ + 1]
          /\ pc' = IF ok THEN "m_fest" ELSE "exit"
    /\ UNCHANGED <<config, db, world, files, frame, idx, wire, runs, ti_alerts>>

\* lines 107-111: the call returned and its summary is printed, or the except
\* branch printed the error
Main_aniv_fim ==
    /\ servico = "main" /\ pc = "m_aniv"
    /\ \E ok \in Outcomes :
          /\ stats' = [stats EXCEPT !.aniv = IF ok THEN "returned" ELSE "raised"]
          /\ hist' = [hist EXCEPT !.faults = IF ok THEN @ ELSE @ + 1]
    /\ pc' = "m_fest"
    /\ UNCHANGED <<config, db, world, files, frame, idx, wire, runs, ti_alerts>>

\* variant of Main_fest_inicio: the holiday call is started while the birthday
\* call is still running
Main_fest_inicio_paralelo ==
    /\ servico = "main" /\ pc \in {"m_aniv", "m_fest"}
    /\ tipo' = should_run_festividade(agora)
    /\ IF should_run_festividade(agora) = NoTipo
       THEN stats' = [stats EXCEPT !.fest = "skipped"] /\ pc' = "m_sleep"
       ELSE stats' = [stats EXCEPT !.fest = "running"] /\ pc' = "m_fest_run"
    /\ UNCHANGED <<config, db, world, files, hoje, rows, mem, idx, wire, runs, ti_alerts, hist>>

\* lines 120-123: should_run_festividade(agora); processar_festividades is called
\* when it returned a tipo
Main_fest_inicio ==
    /\ servico = "main" /\ pc = "m_fest"
    /\ tipo' = should_run_festividade(agora)
    /\ IF should_run_festividade(agora) = NoTipo
       THEN stats' = [stats EXCEPT !.fest = "skipped"] /\ pc' = "m_sleep"
       ELSE stats' = [stats EXCEPT !.fest = "running"] /\ pc' = "m_fest_run"
    /\ UNCHANGED <<config, db, world, files, hoje, rows, mem, idx, wire, runs, ti_alerts, hist>>

\* lines 123-126: the call returned, or the except branch printed the error
Main_fest_fim ==
    /\ servico = "main" /\ pc = "m_fest_run"
    /\ \E ok \in Outcomes :
          /\ stats' = [stats EXCEPT !.fest = IF ok THEN "returned" ELSE "raised"]
          /\ hist' = [hist EXCEPT !.faults = IF ok THEN @ ELSE @ + 1]
    /\ pc' = "m_sleep"
    /\ UNCHANGED <<config, db, world, files, frame, idx, wire, runs, ti_alerts>>

\* line 150: time.sleep(interval_sec), then the top of the loop
Main_sleep ==
    /\ servico = "main" /\ pc = "m_sleep"
    /\ pc' = "idle"
    /\ UNCHANGED <<config, db, world, files, frame, idx, stats, wire, runs, ti_alerts, hist>>

\* an exception left the call; the caller goes on
Raised ==
    /\ pc = "raised"
    /\ Forget
    /\ UNCHANGED <<config, db, world, files, runs, delivered, ti_alerts, hist>>

-----------------------------------------------------------------------------

Next ==
    \/ Tick
    \/ AtualizaTelefone
    \/ Corrompe
    \/ Kill
    \/ Main_proximo
    \/ Aniv_inicio
    \/ Aniv_sem_id
    \/ Aniv_ja_enviado
    \/ Aniv_sem_celular
    \/ Aniv_send_ok
    \/ Aniv_send_falha
    \/ Aniv_save_open
    \/ Aniv_save_dump
    \/ Aniv_return
    \/ Fest_inicio
    \/ Fest_sem_id
    \/ Fest_ja_enviado
    \/ Fest_sem_celular
    \/ Fest_send_ok
    \/ Fest_send_falha
    \/ Fest_save_open
    \/ Fest_save_dump
    \/ Fest_sleep
    \/ Fest_return
    \/ Cob_inicio
    \/ Cob_telefone_invalido
    \/ Cob_envia
    \/ Cob_return
    \/ Ped_inicio
    \/ Ped_celular_invalido
    \/ Ped_envia_falha
    \/ Ped_envia_ok
    \/ Ped_return
    \/ Notas_inicio
    \/ Notas_celular_invalido
    \/ Notas_erro_pdf
    \/ Notas_envia_falha
    \/ Notas_envia_ok
    \/ Notas_return
    \/ Fone_partes
    \/ Fone_exemplo
    \/ Evo_resposta
    \/ Gate_horario
    \/ Gate_semanal
    \/ Gate_festividade
    \/ Main_aniv_inicio
    \/ Main_aniv_fim
    \/ Main_fest_inicio
    \/ Main_fest_fim
    \/ Main_sleep
    \/ Raised

Spec == Init /\ [][Next]_vars

\* the polling loop alone, with no kill of the process: a cycle that can take a
\* step takes it, since main is one thread that neither waits for input nor
\* blocks but in time.sleep
MainInit == Init /\ servico = "main"

MainStep ==
    \/ Main_aniv_inicio
    \/ Main_aniv_fim
    \/ Main_fest_inicio
    \/ Main_fest_fim
    \/ Main_sleep

MainNext ==
    \/ Tick
    \/ AtualizaTelefone
    \/ Main_aniv_inicio
    \/ Main_aniv_fim
    \/ Main_fest_inicio
    \/ Main_fest_fim
    \/ Main_sleep

MainSpec == MainInit /\ [][MainNext]_vars /\ WF_vars(MainStep)

-----------------------------------------------------------------------------
(* What the claims speak about *)

Greetings == {"aniv", "fest"}

\* the call returned its counters
Returned == pc = "done" /\ "total" \in DOMAIN stats

\* the client ids of the candidate rows of the call
RowIds == {rows[i].CLIENTE : i \in 1..Len(rows)} \ {""}

RowsOf(c) == {i \in 1..Len(rows) : rows[i].CLIENTE = c}

\* the phone the candidate query returned for client c
RowPhone(c) == rows[CHOOSE i \in RowsOf(c) : TRUE].CELULAR

\* the call's own DispatchKey of client c
KeyOf(c) == DispatchKey(c, tipo, hoje)

\* the marker of a DispatchKey is in the send-state on disk
Persisted(k) ==
    IF k[2] = "aniversario"
    THEN LET m == load_aniversarios_enviados(file_aniv)
         IN k[1] \in DOMAIN m /\ m[k[1]] = k[3]
    ELSE LET m == load_festividades_enviados(file_fest)
         IN k[1] \in DOMAIN m /\ k[2] \in DOMAIN m[k[1]] /\ m[k[1]][k[2]] = k[3]

\* the marker of client c for the period of the call is in the call's memory
InMem(c) ==
    IF servico = "aniv"
    THEN aniv_ja_enviado(mem, c, hoje)
    ELSE fest_ja_enviado(mem, c, tipo, hoje)

\* nothing failed so far and no candidate had an invalid phone
CleanHistory ==
    /\ ~hist.send_fault /\ ~hist.save_fault /\ ~hist.killed /\ ~hist.corrupto
    /\ hist.invalido = {}

-----------------------------------------------------------------------------
(* C1: birthday and holiday workflows, valid phones, an empty store at the   *)
(* start, deliveries and state writes that succeed: no (client, category,    *)
(* date) is delivered twice over any number of runs; every returned run has  *)
(* delivered each of its clients exactly once in the period, the clients it  *)
(* delivered to itself are counted in 'enviados' and are the only ones it    *)
(* called send_text for, and every other row is counted in 'ja_enviados'     *)
(* (so the first run of a period sends to all and a later run to none).      *)

C1_Idempotence ==
    (servico \in Greetings /\ CleanHistory) =>
        /\ \A k \in DOMAIN delivered : delivered[k] <= 1
        /\ Returned =>
              /\ \A c \in RowIds : Count(delivered, KeyOf(c)) = 1
              /\ tried = sent
              /\ stats.enviados = Cardinality(sent)
              /\ stats.ja_enviados
                    = Cardinality({i \in 1..Len(rows) : rows[i].CLIENTE # ""}) - Cardinality(sent)
              /\ stats.sem_celular = 0 /\ stats.falhas = 0

\* a later run of the same period: nothing sent, every row already sent
C1_Witness ==
    /\ servico \in Greetings /\ CleanHistory /\ Returned
    /\ runs = 2
    /\ tried = {}
    /\ stats.enviados = 0
    /\ stats.ja_enviados = 3
    /\ \A c \in Clients : Count(delivered, KeyOf(c)) = 1

-----------------------------------------------------------------------------
(* C2: birthday and holiday workflows: a step that counts a candidate in     *)
(* 'sem_celular' calls no send for it and leaves the store (on disk and in   *)
(* memory) unchanged; a returned run has called no send for a candidate      *)
(* whose phone does not normalize and counted each of its rows in            *)
(* 'sem_celular'; and a candidate that was skipped for an invalid phone in   *)
(* the period and whose phone now normalizes has been sent to or tried.      *)

C2_SemCelularStep ==
    (servico \in Greetings /\ pc = "loop" /\ pc' = "loop" /\ idx' = idx + 1
        /\ stats'.sem_celular = stats.sem_celular + 1)
    => /\ UNCHANGED <<files, mem, wire>>
       /\ stats' = [stats EXCEPT !.sem_celular = @ + 1]

C2_SemCelularDone ==
    (servico \in Greetings /\ Returned) =>
        \A c \in RowIds :
            /\ (normalizar_celular_br(RowPhone(c)) = None /\ ~InMem(c))
                  => /\ c \notin tried
                     /\ ~Persisted(KeyOf(c))
                     /\ KeyOf(c) \in hist.invalido
            /\ (normalizar_celular_br(RowPhone(c)) # None /\ KeyOf(c) \in hist.invalido)
                  => (c \in tried \/ Count(delivered, KeyOf(c)) >= 1)

C2_InvalidPhone == [][C2_SemCelularStep]_vars /\ []C2_SemCelularDone

\* skipped for an invalid phone in an earlier run, delivered in this one
C2_Witness ==
    /\ servico \in Greetings /\ Returned
    /\ \E c \in RowIds :
          /\ KeyOf(c) \in hist.invalido
          /\ c \in sent
          /\ stats.sem_celular = 0

-----------------------------------------------------------------------------
(* The collections log and the finished calls *)

Campaigns == {"aniv", "fest", "cob"}

\* the OK rows of a log table
OkRows(tabela) == {l \in tabela : l.status_envio = "OK"}

\* an OK row of the document in the category
OkRow(tabela, d, categoria) ==
    \E l \in OkRows(tabela) : l.id_cobranca = d /\ l.categoria = categoria

\* the documents of the groups of a collections call
DocsOf(grupos) == UNION {Range(grupos[i].itens_cli) : i \in 1..Len(grupos)}

\* the client of a document
ClienteDoc(d) == (CHOOSE r \in Range(FinanceiroMov) : r.mfi_codigo = d).mfi_cliente

\* the collections call went through its groups and returned
CobDone == servico = "cob" /\ pc = "done" /\ ~stats.skipped

\* the call returned after its loop
Finished == IF servico = "cob" THEN CobDone ELSE Returned

\* the failure counter of the call
FailCounter(st) == IF servico = "cob" THEN st.erros_envio ELSE st.falhas

\* the OK marker of a DispatchKey is persisted
PersistedOK(k) == IF servico = "cob" THEN OkRow(log, k[1], k[2]) ELSE Persisted(k)

\* the DispatchKey of an entity (client or document) in the call
KeyIn(e) == IF servico = "cob" THEN KeyCob(e, tipo) ELSE KeyOf(e)

\* the entities the call may deliver to, with the phone the call sees
Candidates == IF servico = "cob" THEN Cobrancas ELSE RowIds

PhoneIn(e) == IF servico = "cob" THEN clientes[ClienteDoc(e)] ELSE RowPhone(e)

-----------------------------------------------------------------------------
(* C3: birthday, holiday and collections workflows: a step in which the      *)
(* delivery call of a candidate fails adds one to the failure counter        *)
(* ('falhas', 'erros_envio'), delivers nothing and leaves the markers (file, *)
(* memory, OK rows of the log) as they were; a key whose delivery failed and *)
(* that was never delivered has no OK marker persisted; and a finished call  *)
(* of the same period has called send again for every candidate whose        *)
(* delivery failed before and whose phone is valid, unless it was delivered  *)
(* in between.                                                               *)

C3_FailStep ==
    (servico \in Campaigns /\ hist'.falhou # hist.falhou)
    => /\ FailCounter(stats') = FailCounter(stats) + 1
       /\ UNCHANGED <<files, mem, sent, delivered>>
       /\ OkRows(log') = OkRows(log)

C3_NoMarker ==
    servico \in Campaigns =>
        \A k \in hist.falhou : Count(delivered, k) = 0 => ~PersistedOK(k)

C3_Retried ==
    (servico \in Campaigns /\ Finished) =>
        \A e \in Candidates :
            (KeyIn(e) \in hist.falhou /\ normalizar_celular_br(PhoneIn(e)) # None)
                => (e \in tried \/ Count(delivered, KeyIn(e)) >= 1)

C3_DeliveryFailure == [][C3_FailStep]_vars /\ [](C3_NoMarker /\ C3_Retried)

\* a delivery that failed in an earlier call of the period, made in this call
C3_Witness ==
    /\ servico \in Campaigns /\ Finished
    /\ runs = 2
    /\ FailCounter(stats) = 0
    /\ \E e \in Candidates :
          /\ KeyIn(e) \in hist.falhou
          /\ e \in sent
          /\ Count(delivered, KeyIn(e)) = 1
          /\ PersistedOK(KeyIn(e))

-----------------------------------------------------------------------------
(* C4: orders workflow: when the call has returned and no status update      *)
(* failed, every order it went through has status 'E' if its PDF was         *)
(* delivered in the call and status 'P' otherwise.                           *)

C4_StatusAfterRun ==
    (servico = "ped" /\ Returned /\ ~hist.save_fault) =>
        \A o \in Range(rows) :
            status_ped[o] = IF o \in sent THEN STATUS_ENVIADO ELSE STATUS_PENDENTE

-----------------------------------------------------------------------------
(* C5: invoices workflow: the status of a note becomes 'E' only in the step  *)
(* in which send_media returned for that note; a note is never left in a     *)
(* status other than 'P' or 'E'; every note with status 'P' is fetched by    *)
(* the next call; and a returned call has fetched every note that failed or  *)
(* had an invalid phone before, unless it was delivered in between.          *)

C5_EnviadoStep ==
    servico = "notas" =>
        \A n \in Notas :
            (status_nota[n] # STATUS_ENVIADO /\ status_nota'[n] = STATUS_ENVIADO)
                => /\ pc = "loop" /\ idx <= Len(rows) /\ rows[idx] = n
                   /\ Count(delivered', KeyNota(n)) = Count(delivered, KeyNota(n)) + 1

C5_FetchStep ==
    (servico = "notas" /\ pc = "idle" /\ pc' = "loop") =>
        Range(rows') = {n \in Notas : status_nota[n] = STATUS_PENDENTE}

C5_Pendente ==
    servico = "notas" =>
        /\ \A n \in Notas : status_nota[n] \in {STATUS_PENDENTE, STATUS_ENVIADO}
        /\ \A n \in Notas : status_nota[n] = STATUS_ENVIADO => Count(delivered, KeyNota(n)) >= 1
        /\ Returned =>
              \A n \in Notas :
                  /\ (n \in Range(rows) /\ n \notin sent) => status_nota[n] = STATUS_PENDENTE
                  /\ KeyNota(n) \in hist.falhou \cup hist.invalido
                        => (n \in Range(rows) \/ Count(delivered, KeyNota(n)) >= 1)

-----------------------------------------------------------------------------
(* C6: collections workflow: when the call has gone through its groups, each *)
(* group whose send_text failed has no OK row of the category for any of its *)
(* documents, each group whose send_text returned has one for all of them,   *)
(* and no group has OK rows for only some of its documents.                  *)

C6_GroupAtomicity ==
    CobDone =>
        \A i \in 1..Len(rows) :
            LET docs == Range(rows[i].itens_cli)
                marcados == {d \in docs : OkRow(log, d, tipo)}
            IN /\ marcados = {} \/ marcados = docs
               /\ docs \subseteq sent => marcados = docs
               /\ docs \cap sent = {} => marcados = {}

-----------------------------------------------------------------------------
(* C7: collections workflow: the candidate query of a call returns a due     *)
(* document if and only if the log has no OK row for the document in the     *)
(* category (rows with status ERRO and rows of TI_TELEFONE_INVALIDO do not   *)
(* exclude it), and no customer message is sent about a document that has an *)
(* OK row in the category.                                                   *)

C7_FetchStep ==
    (servico = "cob" /\ pc = "idle" /\ pc' = "loop") =>
        \A d \in Cobrancas :
            d \in DocsOf(rows')
                <=> /\ \E r \in Range(FinanceiroMov) :
                          r.mfi_codigo = d /\ r.mfi_data_vencimento = hoje'
                    /\ ~OkRow(log, d, tipo')

C7_SendStep ==
    servico = "cob" =>
        \A d \in Cobrancas :
            Count(delivered', KeyCob(d, "vence_hoje")) > Count(delivered, KeyCob(d, "vence_hoje"))
                => ~OkRow(log, d, "vence_hoje")

C7_Idempotency == [][C7_FetchStep /\ C7_SendStep]_vars

\* documents with an ERRO row and with a TI row, delivered in a later call
C7_Witness ==
    /\ CobDone
    /\ runs = 2
    /\ \E d \in sent : LogRow(d, tipo, "ERRO", hoje) \in log
    /\ \E d \in sent : OkRow(log, d, TI_DEDUP_CATEGORIA)

-----------------------------------------------------------------------------
(* C8: collections workflow: each document is included in the delivered TI   *)
(* alert of at most one call, and a document alerted to TI has no OK row of  *)
(* the customer category unless the customer was messaged about it.          *)

C8_TiDedup ==
    servico = "cob" =>
        \A d \in Cobrancas :
            /\ Cardinality(Runs(ti_alerts, <<"Cobranca", d>>)) <= 1
            /\ (OkRow(log, d, "vence_hoje") => Count(delivered, KeyCob(d, "vence_hoje")) >= 1)

-----------------------------------------------------------------------------
(* C9: birthday, orders and invoices workflows, where nothing fails: once    *)
(* the TI alert about a client, an order or a note was delivered in one      *)
(* call, no later call delivers the alert about it again.                    *)

C9_AlertOnce ==
    (servico \in {"aniv", "ped", "notas"} /\ hist.faults = 0) =>
        \A k \in DOMAIN ti_alerts : Cardinality(ti_alerts[k]) <= 1

-----------------------------------------------------------------------------
(* C10: birthday and holiday workflows, where the only fault is a kill of    *)
(* the process: a (client, category, date) is delivered a second time only   *)
(* if the process was killed between the successful send_text of that key    *)
(* and the end of the state-file write that follows it.                      *)

C10_KillGap ==
    (servico \in Greetings /\ ~hist.send_fault /\ ~hist.save_fault /\ ~hist.corrupto) =>
        \A k \in DOMAIN delivered : delivered[k] >= 2 => k \in hist.gap

-----------------------------------------------------------------------------
(* C11: send-state round trip: when a save of the birthday or of the holiday *)
(* store has been written, the mapping loaded back from the file equals the  *)
(* mapping that was saved; on the loaded mapping the already-sent test is    *)
(* true for the client, category and date just marked, and false for the     *)
(* same client with another date or with the other category.                 *)

\* the dates of the calendar of the model
Datas == {date_of(Timeline[i]) : i \in 1..Len(Timeline)}

C11_AnivStep ==
    (servico = "aniv" /\ pc = "dump" /\ file_aniv'.kind = "object") =>
        LET recarregado == load_aniversarios_enviados(file_aniv')
        IN /\ recarregado = mem
           /\ aniv_ja_enviado(recarregado, linha.CLIENTE, hoje)
           /\ \A dia \in Datas \ {hoje} : ~aniv_ja_enviado(recarregado, linha.CLIENTE, dia)

C11_FestStep ==
    (servico = "fest" /\ pc = "dump" /\ file_fest'.kind = "object") =>
        LET recarregado == load_festividades_enviados(file_fest')
        IN /\ recarregado = mem
           /\ fest_ja_enviado(recarregado, linha.CLIENTE, tipo, hoje)
           /\ \A dia \in Datas \ {hoje} :
                 ~fest_ja_enviado(recarregado, linha.CLIENTE, tipo, dia)
           /\ \A t \in Tipos \ {tipo} :
                 ~fest_ja_enviado(recarregado, linha.CLIENTE, t, hoje)

-----------------------------------------------------------------------------
(* C12: a send-state file that is missing, unreadable, not valid JSON or not *)
(* a JSON object is read as the empty mapping and the read never raises: the *)
(* call that starts on such a file enters its loop with an empty mapping in  *)
(* which no candidate counts as already sent; a last-run file that is        *)
(* missing, unreadable, empty or not a date is read as None                  *)

Damaged(f) == f \in {FileMissing, FileInvalid, FileUnreadable, FileArray}

C12_AnivStep ==
    (servico = "aniv" /\ pc = "idle" /\ pc' # "idle" /\ Damaged(file_aniv)) =>
        /\ pc' = "loop"
        /\ mem' = EmptyDict
        /\ \A i \in 1..Len(rows') : ~aniv_ja_enviado(mem', rows'[i].CLIENTE, hoje')

C12_FestStep ==
    (servico = "fest" /\ pc = "idle" /\ pc' # "idle" /\ Damaged(file_fest)) =>
        /\ pc' = "loop"
        /\ mem' = EmptyDict
        /\ \A i \in 1..Len(rows') : ~fest_ja_enviado(mem', rows'[i].CLIENTE, tipo', hoje')

C12_SemanaStep ==
    (servico = "gates" /\ pc = "idle" /\ pc' = "done" /\ stats'.gate = "semanal"
        /\ stats'.file \in {SemanaMissing, SemanaUnreadable, SemanaText(<<>>),
                            SemanaText(<<"o", "n", "t", "e", "m">>),
                            SemanaText(isoformat([y |-> 2025, m |-> 12, d |-> 24]))}) =>
        stats'.ultima = IF stats'.file.text = isoformat([y |-> 2025, m |-> 12, d |-> 24])
                        THEN [y |-> 2025, m |-> 12, d |-> 24]
                        ELSE None

C12_LoadNeverRaises == [][C12_AnivStep /\ C12_FestStep /\ C12_SemanaStep]_vars

\* the second birthday call started on a damaged file after the first one had
\* stored a marker, and delivered again to the client of that marker
C12_Witness ==
    /\ servico = "aniv" /\ Returned /\ runs = 2 /\ hist.corrupto
    /\ \E c \in RowIds : Count(delivered, KeyOf(c)) = 2

-----------------------------------------------------------------------------
(* C13: send markers are never deleted: after every birthday or holiday call *)
(* that returned, every client (and, in the holiday store, every tipo entry) *)
(* that a completed write of an earlier call put in the store is still in    *)
(* the store. The process was never killed and nothing but the program       *)
(* touched the file.                                                         *)

InStore(c, t) ==
    IF t = "aniversario"
    THEN c \in DOMAIN load_aniversarios_enviados(file_aniv)
    ELSE LET m == load_festividades_enviados(file_fest)
         IN c \in DOMAIN m /\ t \in DOMAIN m[c]

C13_NeverDeleted ==
    (servico \in Greetings /\ Returned /\ ~hist.killed /\ ~hist.corrupto) =>
        \A k \in hist.gravados : k[3] < runs => InStore(k[1], k[2])

-----------------------------------------------------------------------------
(* C14: the business-hours gate with a start and an end that are HH:MM times *)
(* of the day (the defaults 09:00 and 17:59 when not set): it is true from   *)
(* second 0 of the start minute to the last second of the end minute, false  *)
(* in the minute before the start and from the minute after the end          *)

\* minute of the day of the start and the end of the window
C14_Inicio(v) == IF v = None THEN 9 * 60 + 0 ELSE 8 * 60 + 30

C14_Fim(v) == IF v = None THEN 17 * 60 + 59 ELSE 18 * 60 + 15

C14_Boundaries ==
    (/\ servico = "gates" /\ pc = "done" /\ stats.gate = "horario"
     /\ stats.inicio \in {None, <<"0", "8", ":", "3", "0">>}
     /\ stats.fim \in {None, <<"1", "8", ":", "1", "5">>}) =>
        LET minuto == 60 * stats.t.hh + stats.t.mm
        IN stats.result = IF C14_Inicio(stats.inicio) <= minuto /\ minuto <= C14_Fim(stats.fim)
                          THEN "True"
                          ELSE "False"

\* the default window at the last second of its end minute
C14_Witness ==
    /\ servico = "gates" /\ pc = "done" /\ stats.gate = "horario"
    /\ stats.inicio = None /\ stats.fim = None
    /\ stats.t.hh = 17 /\ stats.t.mm = 59 /\ stats.t.ss = 59
    /\ stats.result = "True"

-----------------------------------------------------------------------------
(* C15: a collections call that starts outside the window 09:00-17:59 is     *)
(* skipped as a whole: it returns skipped = True at once, without a          *)
(* candidate query, a delivery, a TI alert or a log row                      *)

C15_Fora == LET minuto == 60 * agora.hh + agora.mm IN minuto < 9 * 60 \/ minuto > 17 * 60 + 59

C15_Step ==
    (servico = "cob" /\ pc = "idle" /\ runs' = runs + 1 /\ C15_Fora) =>
        /\ pc' = "done"
        /\ stats' = [ok |-> TRUE, skipped |-> TRUE]
        /\ rows' = <<>>
        /\ UNCHANGED <<log, delivered, ti_alerts, status_ped, status_nota, files>>

C15_SkippedCycle == [][C15_Step]_vars

\* a skipped call although documents were due and not yet delivered
C15_Witness ==
    /\ servico = "cob" /\ pc = "done" /\ "skipped" \in DOMAIN stats /\ stats.skipped
    /\ LET cat == gerar_categorias(hoje)[1]
       IN buscar_cobrancas_por_categoria(log, cat[2], cat[2], cat[1], hoje) # <<>>

-----------------------------------------------------------------------------
(* C16: every time gate returns True or False (the holiday gate: a tipo or   *)
(* None) for every value of its configuration, and a value that is absent or *)
(* malformed acts as the documented default: start 09:00, end 17:59, weekday *)
(* 0, hour 8, minute 0                                                       *)

\* the values of the input sets that are not of the expected form
C16_Malformed == {None, <<"9", "h">>, <<"1", "8", "h">>, <<"q", "u", "a">>, <<"x">>}

C16_Or(v, default) == IF v \in C16_Malformed THEN default ELSE v

C16_GatesTotal ==
    (servico = "gates" /\ pc = "done") =>
        CASE stats.gate = "horario" ->
                 /\ stats.result \in {"True", "False"}
                 /\ stats.result =
                        within_business_hours(stats.t,
                                              C16_Or(stats.inicio, <<"0", "9", ":", "0", "0">>),
                                              C16_Or(stats.fim, <<"1", "7", ":", "5", "9">>))
          [] stats.gate = "semanal" ->
                 /\ stats.result \in {"True", "False"}
                 /\ stats.result =
                        should_run_weekly(date_of(stats.t), stats.t, stats.ultima,
                                          C16_Or(stats.dia, <<"0">>),
                                          C16_Or(stats.hora, <<"8">>),
                                          C16_Or(stats.minuto, <<"0">>))
          [] OTHER -> stats.result \in Tipos \cup {NoTipo}

-----------------------------------------------------------------------------
(* C17: with a weekday, an hour and a minute that are numbers of a time of   *)
(* day (or not set: weekday 0, 08:00), should_run_weekly is True exactly     *)
(* when the weekday of hoje is the configured one, the last run is not hoje  *)
(* and the time of agora is at or after hour:minute; once the last run is    *)
(* hoje it is False at every hour                                            *)

\* 22 December 2025 is a Monday, 24 December 2025 a Wednesday
C17_Weekday(t) == IF t.d = 22 THEN 0 ELSE 2

C17_Dia(v) == IF v = None THEN 0 ELSE IF v = <<"2">> THEN 2 ELSE 7

C17_Hora(v) == IF v = None THEN 8 ELSE 10

C17_Minuto(v) == IF v = None THEN 0 ELSE 30

C17_Weekly ==
    (/\ servico = "gates" /\ pc = "done" /\ stats.gate = "semanal"
     /\ stats.dia \in {None, <<"2">>, <<"7">>}
     /\ stats.hora \in {None, <<"1", "0">>}
     /\ stats.minuto \in {None, <<"3", "0">>}) =>
        /\ stats.result =
               IF /\ C17_Weekday(stats.t) = C17_Dia(stats.dia)
                  /\ stats.ultima # date_of(stats.t)
                  /\ 60 * stats.t.hh + stats.t.mm
                        >= 60 * C17_Hora(stats.hora) + C17_Minuto(stats.minuto)
               THEN "True"
               ELSE "False"
        /\ stats.ultima = date_of(stats.t) => stats.result = "False"

\* the configured weekday, at a time after the configured one, and a last run on
\* that day: the gate is closed
C17_Witness ==
    /\ servico = "gates" /\ pc = "done" /\ stats.gate = "semanal"
    /\ stats.dia = <<"2">> /\ stats.hora = <<"1", "0">> /\ stats.minuto = <<"3", "0">>
    /\ stats.t = At(2025, 12, 24, 10, 30, 0)
    /\ stats.ultima = date_of(stats.t)
    /\ stats.result = "False"

-----------------------------------------------------------------------------
(* C18: every delivery attempt of the holiday workflow is made while the     *)
(* clock reads 24 December at or after 22:00 (natal) or 31 December at or    *)
(* after 22:00 (ano_novo). Nothing failed before the attempt.                *)

\* send_text is called in this step of the holiday workflow
C18_Attempt == servico = "fest" /\ pc = "loop" /\ pc' \in {"save", "sleep"} /\ hist.faults = 0

C18_OnTheNight ==
    /\ agora.m = 12 /\ agora.hh >= 22
    /\ \/ tipo = "natal" /\ agora.d = 24
       \/ tipo = "ano_novo" /\ agora.d = 31

C18_HolidayWindow == [][C18_Attempt => C18_OnTheNight]_vars

-----------------------------------------------------------------------------
(* C19: in a holiday call every attempted delivery, successful or failed, is *)
(* followed by the pause before the loop goes on to the next candidate, and  *)
(* a candidate that is skipped (empty id, already sent, invalid phone) is    *)
(* passed without a delivery and without a pause                             *)

\* send_text is called in this step: it delivered, or it raised and was counted
C19_Attempt ==
    /\ servico = "fest" /\ pc = "loop"
    /\ delivered' # delivered \/ stats'.falhas = stats.falhas + 1

C19_Step ==
    /\ C19_Attempt => pc' \in {"save", "sleep"}
    /\ (servico = "fest" /\ pc \in {"save", "dump"}) => pc' \in {"dump", "sleep", "idle"}
    /\ (servico = "fest" /\ pc = "loop" /\ pc' = "loop") =>
          /\ idx' = idx + 1
          /\ delivered' = delivered /\ stats'.falhas = stats.falhas
          /\ \/ linha.CLIENTE = ""
             \/ fest_ja_enviado(mem, linha.CLIENTE, tipo, hoje)
             \/ normalizar_celular_br(linha.CELULAR) = None

C19_PauseAfterAttempt == [][C19_Step]_vars

\* the pause after a delivery that failed
C19_Witness ==
    /\ servico = "fest" /\ pc = "sleep"
    /\ stats.falhas = 1 /\ hist.send_fault

-----------------------------------------------------------------------------
(* C20: in every workflow loop an error raised while one candidate is        *)
(* handled is caught and counted, and the loop goes on with the remaining    *)
(* candidates: no step of a loop ends the call with an exception             *)

C20_NoEscape == [][pc = "loop" => pc' # "raised"]_vars

-----------------------------------------------------------------------------
(* C21: in the polling loop an exception that leaves a workflow call ends    *)
(* only that call: after the birthday call, returned or raised, the holiday  *)
(* gate is evaluated; after the holiday call, returned or raised, the cycle  *)
(* sleeps; after the sleep the next cycle starts; and this goes on for ever  *)

C21_Step ==
    /\ pc = "m_aniv" => pc' = "m_fest"
    /\ pc = "m_fest" =>
          pc' = IF should_run_festividade(agora) = NoTipo THEN "m_sleep" ELSE "m_fest_run"
    /\ pc = "m_fest_run" => pc' = "m_sleep"
    /\ pc = "m_sleep" => pc' = "idle"

C21_LoopGoesOn ==
    /\ [][C21_Step]_vars
    /\ []<>(pc = "m_sleep")
    /\ []<>(pc = "m_aniv")
    /\ (pc = "m_aniv") ~> (pc = "m_fest")
    /\ (pc = "m_fest_run") ~> (pc = "m_sleep")

\* the top of the next cycle after a cycle in which the birthday call raised and
\* the holiday call was still made and returned
C21_Witness ==
    /\ servico = "main" /\ pc = "idle" /\ runs >= 1
    /\ "aniv" \in DOMAIN stats /\ stats.aniv = "raised" /\ stats.fest = "returned"

-----------------------------------------------------------------------------
(* C22: every workflow entry point returns on every path a summary with the  *)
(* same five counts: total, sent (enviados), already sent (ja_enviados),     *)
(* invalid recipient (sem_celular), failed (falhas)                          *)

Workflows == {"aniv", "fest", "cob", "ped", "notas"}

C22_UniformSummary ==
    (servico \in Workflows /\ pc = "done") =>
        DOMAIN stats = {"total", "enviados", "ja_enviados", "sem_celular", "falhas"}

-----------------------------------------------------------------------------
(* C23: normalizar_celular_br is total: for every input text it returns None *)
(* or a text of exactly 13 decimal digits that starts with 55                *)

Canonico(r) ==
    /\ Len(r) = 13
    /\ \A i \in 1..13 : IsDigit(r[i])
    /\ r[1] = "5" /\ r[2] = "5"

C23_Total ==
    (servico = "fone" /\ pc = "done") => (stats.result = None \/ Canonico(stats.result))

\* an input of more than 13 digits that normalizes
C23_Witness ==
    /\ servico = "fone" /\ pc = "done"
    /\ Len(SelectSeq(stats.raw, IsDigit)) > 13
    /\ Canonico(stats.result)

-----------------------------------------------------------------------------
(* C24: normalizar_celular_br gives the documented results for the           *)
(* documented examples, and follows the rules they stand for: None for an    *)
(* input of fewer than 8 digits; 5546 and a 9 before an 8-digit local number *)
(* given alone; leading zeros and separators change nothing                  *)

C24_Documentado(raw) ==
    CASE raw = <<"9", "9", "1", "2", "2", "8", "2", "6">> -> <<"5", "5", "4", "6", "9", "9", "9", "1", "2", "2", "8", "2", "6">>
      [] raw = <<"0", "4", "6", "9", "9", "9", "8", "2", "0", "1", "9", "8">> -> <<"5", "5", "4", "6", "9", "9", "9", "8", "2", "0", "1", "9", "8">>
      [] raw = <<"4", "6", " ", " ", "9", "9", "9", "1", "9", "3", "2", "1">> -> <<"5", "5", "4", "6", "9", "9", "9", "9", "1", "9", "3", "2", "1">>
      [] raw = <<"0", "5", "4", "9", "9", "9", "6", "7", "7", "9", "6">> -> <<"5", "5", "5", "4", "9", "9", "9", "9", "6", "7", "7", "9", "6">>
      [] OTHER -> None

C24_Examples ==
    (servico = "fone" /\ pc = "done") =>
        /\ stats.pre = None /\ Len(SelectSeq(stats.raw, IsDigit)) >= 3 =>
              stats.result = C24_Documentado(stats.raw)
        /\ Len(SelectSeq(stats.raw, IsDigit)) < 8 => stats.result = None
        /\ (stats.pre \in {<<>>, <<"0">>, <<"0", "0">>} /\ stats.ddd = <<>> /\ Len(stats.loc) = 8) =>
              stats.result = <<"5", "5", "4", "6", "9">> \o stats.loc
        /\ stats.pre \in {<<>>, <<"0">>, <<"0", "0">>} =>
              stats.result = normalizar_celular_br(stats.ddd \o stats.loc)

-----------------------------------------------------------------------------
(* C25: the area code of the input is kept: an input made of a 2-digit area  *)
(* code and a local number of 8 or 9 digits, with or without leading zeros   *)
(* or the country code 55, gives 55, that area code and the local number     *)
(* with 9 digits; 46 is used only when the input has no area code            *)

C25_Nove(loc) == IF Len(loc) = 8 THEN <<"9">> \o loc ELSE loc

C25_AreaCode ==
    (/\ servico = "fone" /\ pc = "done"
     /\ stats.pre # None /\ stats.ddd # <<>> /\ Len(stats.loc) \in {8, 9}) =>
        stats.result = <<"5", "5">> \o stats.ddd \o C25_Nove(stats.loc)

-----------------------------------------------------------------------------
\* C26: every gateway response whose status is not 2xx is raised as an
\* EvolutionAPIError that carries the status code and the body (the parsed
\* JSON, or the raw text when the body is not JSON), and only a 2xx response
\* is returned without raising
C26_2xx(status_code) == 200 <= status_code /\ status_code < 300

C26_NonOkRaises ==
    (servico = "evo" /\ pc = "done") =>
        /\ ~C26_2xx(stats.status) =>
              /\ stats.resp.raised
              /\ stats.resp.status_code = stats.status
              /\ stats.resp.payload = IF stats.body.json THEN [json |-> stats.body.value]
                                      ELSE [text |-> stats.body.value]
        /\ ~stats.resp.raised => C26_2xx(stats.status)

-----------------------------------------------------------------------------
(* C27: the polling loop runs the workflows one after the other: the holiday *)
(* call starts only when the birthday call of the cycle has ended, a cycle   *)
(* starts only from the top of the loop, which is reached only from the      *)
(* sleep that follows both calls, and at no time are two calls running       *)

C27_Running(w) == "aniv" \in DOMAIN stats /\ stats[w] = "running"

C27_Ended(w) == "aniv" \in DOMAIN stats /\ stats[w] \in {"returned", "raised"}

C27_Step ==
    /\ (~C27_Running("fest") /\ C27_Running("fest")') => (pc = "m_fest" /\ C27_Ended("aniv"))
    /\ (~C27_Running("aniv") /\ C27_Running("aniv")') => (pc = "idle" /\ ~C27_Running("fest"))
    /\ (servico = "main" /\ pc # "idle" /\ pc' = "idle") => pc = "m_sleep"

C27_Sequential ==
    /\ [](servico = "main" => ~(C27_Running("aniv") /\ C27_Running("fest")))
    /\ [][C27_Step]_vars

\* the holiday call is running in a cycle whose birthday call has ended
C27_Witness ==
    /\ servico = "main" /\ pc = "m_fest_run"
    /\ C27_Running("fest") /\ C27_Ended("aniv")

-----------------------------------------------------------------------------
(* C28: in the birthday workflow a client whose stored date is not today's   *)
(* ISO date is not skipped as already sent: with a usable phone send_text is *)
(* attempted, and when it returns the stored value is today's ISO date, in   *)
(* memory at once and in the file when the write completes; a client whose   *)
(* stored date is today's is skipped and nothing is sent or stored           *)

C28_AtClient ==
    /\ servico = "aniv" /\ pc = "loop" /\ idx <= Len(rows)
    /\ linha.CLIENTE \in DOMAIN mem

C28_Earlier == C28_AtClient /\ mem[linha.CLIENTE] # isoformat(hoje)

C28_Today == C28_AtClient /\ mem[linha.CLIENTE] = isoformat(hoje)

C28_Step ==
    /\ (C28_Earlier /\ pc' = "loop" /\ idx' = idx + 1) =>
          /\ stats'.ja_enviados = stats.ja_enviados
          /\ normalizar_celular_br(linha.CELULAR) # None => linha.CLIENTE \in tried'
    /\ (C28_Earlier /\ pc' = "save") =>
          /\ linha.CLIENTE \in sent'
          /\ mem'[linha.CLIENTE] = isoformat(hoje)
    /\ (servico = "aniv" /\ pc = "dump" /\ file_aniv'.kind = "object") =>
          load_aniversarios_enviados(file_aniv')[linha.CLIENTE] = isoformat(hoje)
    /\ (C28_Today /\ pc' = "loop" /\ idx' = idx + 1) =>
          /\ stats'.ja_enviados = stats.ja_enviados + 1
          /\ UNCHANGED <<mem, tried, sent, delivered, file_aniv>>
    /\ C28_Today => pc' # "save"

C28_EarlierMarker == [][C28_Step]_vars

\* send_text has just returned for a client whose marker in the file is still
\* the date of an earlier call
C28_Witness ==
    /\ servico = "aniv" /\ pc = "save" /\ runs = 2
    /\ file_aniv.kind = "object"
    /\ linha.CLIENTE \in DOMAIN load_aniversarios_enviados(file_aniv)
    /\ load_aniversarios_enviados(file_aniv)[linha.CLIENTE] # isoformat(hoje)
    /\ mem[linha.CLIENTE] = isoformat(hoje)

-----------------------------------------------------------------------------
(* C29: in a collections cycle the fetched documents of a category are put   *)
(* into one group per client: every fetched document is in exactly one       *)
(* group, the group of its client, once; and the customer send of a group is *)
(* one send_text for all the documents of the group, the only one of that    *)
(* client in the cycle                                                       *)

\* the documents the query of the cycle that starts now returns
C29_Itens ==
    LET cat == gerar_categorias(date_of(agora))[1]
    IN buscar_cobrancas_por_categoria(log, cat[2], cat[2], cat[1], date_of(agora))

C29_Partition(itens, grupos) ==
    /\ \A i \in 1..Len(itens) :
          \E g \in 1..Len(grupos) :
             /\ grupos[g].cli_codigo = itens[i].cli_codigo
             /\ itens[i].mfi_codigo \in Range(grupos[g].itens_cli)
             /\ \A h \in 1..Len(grupos) :
                   itens[i].mfi_codigo \in Range(grupos[h].itens_cli) => h = g
    /\ \A g \in 1..Len(grupos) :
          /\ Cardinality(Range(grupos[g].itens_cli)) = Len(grupos[g].itens_cli)
          /\ Range(grupos[g].itens_cli) =
                {itens[i].mfi_codigo : i \in {j \in 1..Len(itens) :
                                                 itens[j].cli_codigo = grupos[g].cli_codigo}}
          /\ \A h \in 1..Len(grupos) : grupos[h].cli_codigo = grupos[g].cli_codigo => h = g

C29_Step ==
    /\ (servico = "cob" /\ pc = "idle" /\ pc' = "loop") => C29_Partition(C29_Itens, rows')
    /\ (servico = "cob" /\ pc = "loop" /\ pc' = "loop" /\ tried' # tried) =>
          /\ idx' = idx + 1
          /\ tried \cap Range(grupo.itens_cli) = {}
          /\ tried' = tried \cup Range(grupo.itens_cli)
          /\ sent' \in {sent, sent \cup Range(grupo.itens_cli)}

C29_OneMessagePerClient == [][C29_Step]_vars

\* the message of a client with two documents was sent and the loop is at the
\* next client's group
C29_Witness ==
    /\ servico = "cob" /\ pc = "loop" /\ idx = 2 /\ Len(rows) = 2
    /\ Len(rows[1].itens_cli) = 2
    /\ Range(rows[1].itens_cli) \subseteq sent

-----------------------------------------------------------------------------
(* C30: in the invoices workflow every failed delivery, whatever raised,     *)
(* counts one failure and leaves the note's status 'P'; a gateway error of   *)
(* status 400 also calls the TI alert once for that note; a gateway error of *)
(* another status and an exception that is not a gateway error alert nobody  *)

\* a step of the loop that ends the handling of a note with a usable phone
\* without a delivery
C30_Falha ==
    /\ servico = "notas" /\ pc = "loop" /\ idx <= Len(rows)
    /\ normalizar_celular_br(cel_raw) # None
    /\ pc' = "loop" /\ idx' = idx + 1
    /\ nota \notin sent'

C30_Step ==
    C30_Falha =>
        /\ stats'.falhas = stats.falhas + 1
        /\ stats'.enviados = stats.enviados
        /\ status_nota'[nota] = STATUS_PENDENTE
        /\ \A n \in Notas \ {nota} : status_nota'[n] = status_nota[n]
        /\ ti_alerts' =
              IF hist'.erro.tipo = "EvolutionAPIError" /\ hist'.erro.status_code = 400
              THEN notificar_ti_pedido_sem_celular(ti_alerts, "NF-e", nota, hist'.erro.ti_ok)
              ELSE ti_alerts

-----------------------------------------------------------------------------
(* C31: normalizar_celular_br applied to a value it returned returns that    *)
(* value again                                                               *)

C31_Idempotent ==
    (servico = "fone" /\ pc = "done" /\ stats.result # None) =>
        stats.denovo = stats.result

\* a number with a prefix, an area code other than the default and separators
\* was normalized, and its result was normalized again
C31_Witness ==
    /\ servico = "fone" /\ pc = "done"
    /\ stats.result # None /\ stats.result # stats.raw
    /\ stats.ddd = <<"5", "4">> /\ stats.pre = <<"0", "5", "5">>
    /\ stats.denovo = stats.result

-----------------------------------------------------------------------------
(* C32: in the birthday and holiday workflows every row handled so far that  *)
(* has a client id is counted in exactly one of enviados, ja_enviados,       *)
(* sem_celular, falhas, and a row without a client id in none: the four      *)
(* counts add up to the number of handled rows with a client id, so at the   *)
(* return their sum is at most total, and equal to it exactly when no row    *)
(* has an empty client id                                                    *)

C32_Sum == stats.enviados + stats.ja_enviados + stats.sem_celular + stats.falhas

C32_ComId(n) == Cardinality({i \in 1..n : rows[i].CLIENTE # ""})

C32_Counters ==
    /\ (servico \in {"aniv", "fest"} /\ pc = "loop") => C32_Sum = C32_ComId(idx - 1)
    /\ (servico \in {"aniv", "fest"} /\ pc = "done" /\ "total" \in DOMAIN stats) =>
          /\ stats.total = Len(rows)
          /\ C32_Sum = C32_ComId(Len(rows))
          /\ C32_Sum <= stats.total
          /\ C32_Sum = stats.total <=> \A i \in 1..Len(rows) : rows[i].CLIENTE # ""

\* a call returned with rows in each of three outcomes and a row without a
\* client id
C32_Witness ==
    /\ servico = "aniv" /\ pc = "done"
    /\ stats.enviados >= 1 /\ stats.ja_enviados >= 1 /\ stats.sem_celular >= 1
    /\ C32_Sum = stats.total - 1

-----------------------------------------------------------------------------
(* C33: in the orders and invoices workflows every fetched item handled so   *)
(* far is counted once, in enviados or in falhas, also when a status update  *)
(* raised: at the return enviados + falhas = total, and enviados is the      *)
(* number of fetched items whose status the call set to 'E'                  *)

C33_Status(item) == IF servico = "ped" THEN status_ped[item] ELSE status_nota[item]

C33_Enviados(n) == Cardinality({i \in 1..n : C33_Status(rows[i]) = STATUS_ENVIADO})

C33_Counted ==
    /\ (servico \in {"ped", "notas"} /\ pc = "loop") =>
          /\ stats.enviados + stats.falhas = idx - 1
          /\ stats.enviados = C33_Enviados(idx - 1)
    /\ (servico \in {"ped", "notas"} /\ pc = "done") =>
          /\ stats.total = Len(rows)
          /\ stats.enviados + stats.falhas = stats.total
          /\ stats.enviados = C33_Enviados(Len(rows))

\* a call returned after one item was sent and the status update of another
\* item raised and could not be recorded
C33_Witness ==
    /\ servico \in {"ped", "notas"} /\ pc = "done"
    /\ stats.enviados = 1 /\ stats.falhas = 1
    /\ hist.save_fault
    /\ \E i \in 1..Len(rows) : C33_Status(rows[i]) = STATUS_PENDENTE

-----------------------------------------------------------------------------
(* C34: in the birthday and holiday workflows a row whose client is marked   *)
(* sent for the current period is counted in ja_enviados and nothing else    *)
(* happens for it, also when its phone does not normalize: no sem_celular,   *)
(* no delivery, no TI alert, no change of the markers                        *)

C34_Marked ==
    /\ servico \in {"aniv", "fest"} /\ pc = "loop" /\ idx <= Len(rows)
    /\ linha.CLIENTE # ""
    /\ IF servico = "aniv" THEN aniv_ja_enviado(mem, linha.CLIENTE, hoje)
       ELSE fest_ja_enviado(mem, linha.CLIENTE, tipo, hoje)

C34_Step ==
    (C34_Marked /\ idx' # idx /\ pc' # "idle") =>
        /\ pc' = "loop" /\ idx' = idx + 1
        /\ stats' = [stats EXCEPT !.ja_enviados = @ + 1]
        /\ UNCHANGED <<mem, files, wire, ti_alerts, hist>>

C34_MarkerFirst == [][C34_Step]_vars

\* the row of a client marked today whose phone no longer normalizes was
\* counted as already sent, and as nothing else
C34_Witness ==
    /\ servico \in {"aniv", "fest"} /\ pc = "loop" /\ idx = 2 /\ runs = 2
    /\ normalizar_celular_br(rows[1].CELULAR) = None
    /\ stats.ja_enviados = 1 /\ stats.sem_celular = 0
    /\ hist.invalido = {} /\ ti_alerts = EmptyDict

-----------------------------------------------------------------------------
(* C35: within one birthday or holiday call a client that was delivered to   *)
(* is not delivered to again: a later row of the same client is counted in   *)
(* ja_enviados and nothing is sent for it                                    *)

C35_LaterRow ==
    /\ servico \in {"aniv", "fest"} /\ pc = "loop" /\ idx <= Len(rows)
    /\ linha.CLIENTE \in sent

C35_Step ==
    /\ (C35_LaterRow /\ pc' # "idle") =>
          /\ UNCHANGED <<sent, delivered, tried>>
          /\ idx' # idx => (pc' = "loop" /\ stats' = [stats EXCEPT !.ja_enviados = @ + 1])
    /\ (servico \in {"aniv", "fest"} /\ pc = "loop" /\ delivered' # delivered) =>
          /\ linha.CLIENTE \notin sent
          /\ delivered' = Record(delivered, DispatchKey(linha.CLIENTE, tipo, hoje))

C35_OncePerRun == [][C35_Step]_vars

\* the first call, with nothing stored before it, returned: the client that is
\* twice in the list was delivered to once and its second row was counted as
\* already sent
C35_Witness ==
    /\ servico \in {"aniv", "fest"} /\ pc = "done" /\ runs = 1 /\ ~hist.corrupto
    /\ "total" \in DOMAIN stats /\ stats.ja_enviados = 1
    /\ "c1" \in sent
    /\ Count(delivered, DispatchKey("c1", tipo, hoje)) = 1

-----------------------------------------------------------------------------
(* C36: the marker of a holiday send is the entry of its client and its tipo *)
(* only: the send leaves the entries of the other clients and the client's   *)
(* entry of the other tipo as they were, in memory and in the file a         *)
(* completed write leaves; and a marker of the other tipo never makes the    *)
(* row count as already sent                                                 *)

C36_AtRow == servico = "fest" /\ pc = "loop" /\ idx <= Len(rows) /\ linha.CLIENTE # ""

C36_Registro(m, c) == IF c \in DOMAIN m THEN m[c] ELSE EmptyDict

C36_Step ==
    /\ (C36_AtRow /\ pc' = "save") =>
          /\ DOMAIN mem' = DOMAIN mem \cup {linha.CLIENTE}
          /\ \A k \in DOMAIN mem \ {linha.CLIENTE} : mem'[k] = mem[k]
          /\ DOMAIN mem'[linha.CLIENTE] = DOMAIN C36_Registro(mem, linha.CLIENTE) \cup {tipo}
          /\ \A t \in DOMAIN C36_Registro(mem, linha.CLIENTE) \ {tipo} :
                mem'[linha.CLIENTE][t] = mem[linha.CLIENTE][t]
          /\ mem'[linha.CLIENTE][tipo] = isoformat(hoje)
    /\ (servico = "fest" /\ pc = "dump" /\ file_fest'.kind = "object") =>
          load_festividades_enviados(file_fest') = mem
    /\ (C36_AtRow /\ tipo \notin DOMAIN C36_Registro(mem, linha.CLIENTE)
                  /\ pc' = "loop" /\ idx' = idx + 1) =>
          stats'.ja_enviados = stats.ja_enviados

C36_OnlyItsEntry == [][C36_Step]_vars

\* the new-year send to a client that has a christmas marker has just returned:
\* both entries are in the client's record, the christmas one as it was
C36_Witness ==
    /\ servico = "fest" /\ pc = "save" /\ tipo = "ano_novo"
    /\ DOMAIN mem[linha.CLIENTE] = {"natal", "ano_novo"}
    /\ mem[linha.CLIENTE]["natal"] = isoformat([y |-> 2025, m |-> 12, d |-> 24])
    /\ mem[linha.CLIENTE]["ano_novo"] = isoformat(hoje)
    /\ \E k \in DOMAIN mem \ {linha.CLIENTE} : DOMAIN mem[k] = {"natal"}

-----------------------------------------------------------------------------
(* C37: a write of the send-state file that fails does not reach the         *)
(* workflow: whatever save_aniversarios_enviados or                          *)
(* save_festividades_enviados meets, the call goes on, the client just       *)
(* delivered to is counted in enviados and not in falhas, and the marker     *)
(* stays in memory for the rows that follow                                  *)

C37_Saving == servico \in {"aniv", "fest"} /\ pc \in {"save", "dump"}

C37_Step ==
    (C37_Saving /\ pc' \notin {"idle", "dump"}) =>
        /\ pc' \in {"loop", "sleep"}
        /\ stats'.enviados = stats.enviados + 1
        /\ stats'.falhas = stats.falhas
        /\ mem' = mem

C37_SaveNeverPropagates == [][C37_Step]_vars

-----------------------------------------------------------------------------
(* C38: in a collections call cobrancas_marcadas_ok grows by the number of   *)
(* OK rows of the customer category the step wrote, erros_envio grows only   *)
(* for a group whose customer message was not delivered, and no group is     *)
(* counted both in telefones_invalidos and in erros_envio                    *)

C38_OkRows(tabela) ==
    {l \in tabela : l.categoria = tipo /\ l.status_envio = "OK"}

C38_Step ==
    (servico = "cob" /\ pc = "loop" /\ pc' = "loop" /\ idx' = idx + 1) =>
        /\ stats'.cobrancas_marcadas_ok =
              stats.cobrancas_marcadas_ok + Cardinality(C38_OkRows(log') \ C38_OkRows(log))
        /\ stats'.erros_envio # stats.erros_envio =>
              /\ stats'.erros_envio = stats.erros_envio + 1
              /\ Range(grupo.itens_cli) \cap sent' = {}
              /\ delivered' = delivered
        /\ ~(stats'.erros_envio # stats.erros_envio
             /\ stats'.telefones_invalidos # stats.telefones_invalidos)

C38_Counters == [][C38_Step]_vars

-----------------------------------------------------------------------------
(* C39: the holiday gate of the loop and the date guard of the workflow      *)
(* agree: a tipo the gate selects for an instant passes the guard for the    *)
(* date of that instant, so a call made by the loop never returns the        *)
(* "Fora da data" result; and the gate selects christmas only on the 24th    *)
(* and new year only on the 31st, never both                                 *)

C39_GateAgrees ==
    /\ (servico = "gates" /\ pc = "done" /\ stats.gate = "festividade") =>
          /\ stats.result \in Tipos \cup {NoTipo}
          /\ stats.result # NoTipo => ~fora_da_data(stats.result, date_of(stats.t))
          /\ stats.result = "natal" => (stats.t.m = 12 /\ stats.t.d = 24)
          /\ stats.result = "ano_novo" => (stats.t.m = 12 /\ stats.t.d = 31)
    /\ (servico = "fest" /\ pc \notin {"idle", "raised"}) =>
          /\ tipo \in Tipos /\ ~fora_da_data(tipo, hoje)
          /\ "erro" \notin DOMAIN stats
    /\ (servico = "main" /\ pc = "m_fest_run") =>
          /\ tipo \in Tipos /\ ~fora_da_data(tipo, hoje)

\* the loop is inside the holiday call it started on the night of the 24th
C39_Witness ==
    /\ servico = "main" /\ pc = "m_fest_run"
    /\ tipo = "natal" /\ hoje = [y |-> 2025, m |-> 12, d |-> 24]
    /\ stats.fest = "running"

====
